---- MODULE Spec2Model ----
(***************************************************************************)
(* A model of nile-library: the parser of OpenTTD translation strings      *)
(* (src/src/parser.rs) and the validator / sanitizer / normalizer          *)
(* (src/src/validate.rs).                                                  *)
(*                                                                         *)
(* A string is a sequence of characters; a character is written as a       *)
(* one-letter TLA+ string when it is printable ASCII and by its codepoint  *)
(* name ("U+00E9") otherwise.  Option<T> is a sequence of length <= 1:     *)
(* None is << >> and Some(v) is << v >>.                                   *)
(***************************************************************************)
EXTENDS Integers, Sequences, FiniteSets, TLC

\* ------------------------------------------------------------------ bounds

\* usize::MAX of the modelled machine (the real one is 2^64 - 1, or 2^32 - 1
\* for the wasm32 build of lib.rs; the model keeps the width small).
UsizeMax == 7

\* The number of pieces (texts or directives) an input of the parser
\* pipeline is built from.
MaxPieces == 2

\* The number of pieces of a base string and of a translation handed to the
\* validation entry points.
MaxBasePieces == 2

MaxTransPieces == 2

\* How many calls of the validation entry points one behaviour makes.
MaxCalls == 2

\* How many operations (parse, sanitize, normalize, compile) one behaviour
\* of the parser pipeline applies to its input.
MaxOps == 3

\* The number of pieces the base and the translation of a scan are made of.
MaxScanBasePieces == 2

MaxScanPieces == 2

\* The fragments of a base and of a candidate given to validate_string.
MaxGivenBaseFragments == 2

MaxGivenFragments == 2

\* The fragments of a ParsedString given to sanitize_whitespace and
\* normalize_string.
MaxEditFragments == 2
MaxAgainBasePieces == 2
MaxAgainPieces == 2

\* ------------------------------------------------------------- characters

None == << >>

Some(v) == << v >>

IsSome(o) == o # << >>

Unwrap(o) == o[1]

UnwrapOr(o, d) == IF o = << >> THEN d ELSE o[1]

\* Option::or
OptOr(a, b) == IF a = << >> THEN b ELSE a

NUL == "U+0000"

TAB == "U+0009"

LF == "U+000A"

CR == "U+000D"

DEL == "U+007F"

QUOTE == "\""

EACUTE == "U+00E9"

NBSPCHAR == "U+00A0"

ARABIC3 == "U+0663"

AsciiUpper ==
  {"A", "B", "C", "D", "E", "F", "G", "H", "I", "J", "K", "L", "M",
   "N", "O", "P", "Q", "R", "S", "T", "U", "V", "W", "X", "Y", "Z"}

AsciiLower ==
  {"a", "b", "c", "d", "e", "f", "g", "h", "i", "j", "k", "l", "m",
   "n", "o", "p", "q", "r", "s", "t", "u", "v", "w", "x", "y", "z"}

AsciiDigit == {"0", "1", "2", "3", "4", "5", "6", "7", "8", "9"}

\* The length of a character in UTF-8.
len_utf8(c) == IF c \in {EACUTE, NBSPCHAR, ARABIC3} THEN 2 ELSE 1

\* regex \d (Unicode aware: every decimal digit, not only ASCII)
RegexDigit == AsciiDigit \cup {ARABIC3}

\* regex \w
RegexWord == AsciiUpper \cup AsciiLower \cup RegexDigit \cup {"_", EACUTE}

\* regex \s (Unicode White_Space)
RegexSpace == {" ", TAB, LF, CR, NBSPCHAR}

\* regex . (every character but the line feed)
RegexDot(c) == c # LF

\* char::is_ascii_whitespace
is_ascii_whitespace(c) == c \in {" ", TAB, LF, CR}

\* char::is_ascii_control
is_ascii_control(c) == c \in {NUL, TAB, LF, CR, DEL}

\* char::is_whitespace
is_whitespace(c) == c \in {" ", TAB, LF, CR, NBSPCHAR}

\* str::len: the length in bytes
RECURSIVE str_len(_)
str_len(s) == IF s = << >> THEN 0 ELSE len_utf8(Head(s)) + str_len(Tail(s))

\* str::find(char), as a 1-based character index; 0 when absent
str_find(s, c) ==
  IF \E i \in 1..Len(s) : s[i] = c
  THEN CHOOSE i \in 1..Len(s) : s[i] = c /\ \A j \in 1..(i - 1) : s[j] # c
  ELSE 0

\* The length of the longest prefix of s made of characters of class.
PrefixLen(s, class) ==
  IF \A i \in 1..Len(s) : s[i] \in class
  THEN Len(s)
  ELSE (CHOOSE i \in 1..Len(s) :
          s[i] \notin class /\ \A j \in 1..(i - 1) : s[j] \in class) - 1

Drop(s, n) == SubSeq(s, n + 1, Len(s))

Take(s, n) == SubSeq(s, 1, n)

\* str::parse::<usize>().ok(): ASCII digits only, None on overflow
RECURSIVE parse_usize_from(_, _)
parse_usize_from(s, acc) ==
  IF s = << >> THEN Some(acc)
  ELSE IF Head(s) \notin AsciiDigit THEN None
  ELSE LET d == CHOOSE n \in 0..9 :
                  <<"0", "1", "2", "3", "4", "5", "6", "7", "8", "9">>[n + 1] = Head(s)
           v == acc * 10 + d
       IN IF v > UsizeMax THEN None ELSE parse_usize_from(Tail(s), v)

parse_usize(s) == IF s = << >> THEN None ELSE parse_usize_from(s, 0)

\* format!("{}", n) of an integer
RECURSIVE fmt_usize(_)
fmt_usize(n) ==
  LET d == <<"0", "1", "2", "3", "4", "5", "6", "7", "8", "9">>[(n % 10) + 1]
  IN IF n < 10 THEN << d >> ELSE fmt_usize(n \div 10) \o << d >>

\* ------------------------------------------------------------- parser.rs

\* The text between the braces of a directive "{...}".
Body(string) == SubSeq(string, 2, Len(string) - 1)

Braced(string) ==
  Len(string) >= 2 /\ string[1] = "{" /\ string[Len(string)] = "}"

All(s, class) == \A i \in 1..Len(s) : s[i] \in class

\* StringCommand::parse, the regex
\*   ^\{(?:(\d+):)?(|\{|[A-Z]+[A-Z0-9]*)(?:\.(\w+))?\}$
\* None when the text does not match.
StringCommand_parse(string) ==
  IF ~Braced(string) THEN None
  ELSE
    LET body == Body(string)
        nd == PrefixLen(body, RegexDigit)
        hasIndex == nd > 0 /\ Len(body) > nd /\ body[nd + 1] = ":"
        rest == IF hasIndex THEN Drop(body, nd + 1) ELSE body
        dot == str_find(rest, ".")
        name == IF dot = 0 THEN rest ELSE Take(rest, dot - 1)
        case == IF dot = 0 THEN None ELSE Some(Drop(rest, dot))
        nameOk ==
          \/ name = << >>
          \/ name = << "{" >>
          \/ /\ name[1] \in AsciiUpper
             /\ All(name, AsciiUpper \cup AsciiDigit)
        caseOk ==
          case = None \/ (Unwrap(case) # << >> /\ All(Unwrap(case), RegexWord))
    IN IF nameOk /\ caseOk
       THEN Some([kind |-> "Command",
                  index |-> IF hasIndex THEN parse_usize(Take(body, nd)) ELSE None,
                  name |-> name,
                  case |-> case])
       ELSE None

\* StringCommand::compile leaving out the case.
StringCommand_compile_WithoutCase(cmd) ==
  << "{" >>
  \o (IF IsSome(cmd.index) THEN fmt_usize(Unwrap(cmd.index)) \o << ":" >> ELSE << >>)
  \o cmd.name
  \o << "}" >>

\* StringCommand::compile
StringCommand_compile(cmd) ==
  << "{" >>
  \o (IF IsSome(cmd.index) THEN fmt_usize(Unwrap(cmd.index)) \o << ":" >> ELSE << >>)
  \o cmd.name
  \o (IF IsSome(cmd.case) THEN << "." >> \o Unwrap(cmd.case) ELSE << >>)
  \o << "}" >>

\* GenderDefinition::parse, the regex ^\{G\s*=\s*(\w+)\}$
GenderDefinition_parse(string) ==
  IF ~Braced(string) THEN None
  ELSE
    LET body == Body(string)
        r1 == Drop(body, 1)
        r2 == Drop(r1, PrefixLen(r1, RegexSpace))
        r3 == Drop(r2, 1)
        gender == Drop(r3, PrefixLen(r3, RegexSpace))
    IN IF /\ body # << >> /\ body[1] = "G"
          /\ r2 # << >> /\ r2[1] = "="
          /\ gender # << >> /\ All(gender, RegexWord)
       THEN Some([kind |-> "Gender", gender |-> gender])
       ELSE None

\* GenderDefinition::compile
GenderDefinition_compile(g) == << "{", "G", "=" >> \o g.gender \o << "}" >>

\* The loop of ChoiceList::parse over pat_item, the regex
\*   ^\s+(?:([^\s"]+)|"([^"]*)")
\* None when an item does not match.
RECURSIVE ChoiceItems(_, _)
ChoiceItems(rest, choices) ==
  IF rest = << >> THEN Some(choices)
  ELSE
    LET ws == PrefixLen(rest, RegexSpace)
        r1 == Drop(rest, ws)
        bare == IF \A i \in 1..Len(r1) : r1[i] \notin RegexSpace \cup {QUOTE}
                THEN Len(r1)
                ELSE (CHOOSE i \in 1..Len(r1) :
                        /\ r1[i] \in RegexSpace \cup {QUOTE}
                        /\ \A j \in 1..(i - 1) : r1[j] \notin RegexSpace \cup {QUOTE}) - 1
        close == str_find(Drop(r1, 1), QUOTE)
    IN IF ws = 0 \/ r1 = << >> THEN None
       ELSE IF bare > 0 THEN ChoiceItems(Drop(r1, bare), Append(choices, Take(r1, bare)))
       ELSE IF r1[1] = QUOTE /\ close > 0
            THEN ChoiceItems(Drop(r1, close + 1),
                             Append(choices, SubSeq(r1, 2, close)))
       ELSE None

\* Group 4 of pat_choice and the tail: (\s+[^\s0-9].*?)\s*\}$ matched against
\* everything that is left of the body; None, or Some(the text of group 4).
ChoiceTail(rem) ==
  LET ws == PrefixLen(rem, RegexSpace)
      r1 == Drop(rem, ws)
      \* .*? is lazy: group 4 ends at the last character that is not \s
      last == IF \E i \in 1..Len(r1) : r1[i] \notin RegexSpace
              THEN CHOOSE i \in 1..Len(r1) :
                     /\ r1[i] \notin RegexSpace
                     /\ \A j \in (i + 1)..Len(r1) : r1[j] \in RegexSpace
              ELSE 0
  IN IF /\ ws > 0 /\ r1 # << >> /\ r1[1] \notin AsciiDigit
        /\ \A i \in 2..last : RegexDot(r1[i])
     THEN Some(Take(rem, ws + last))
     ELSE None

\* ChoiceList::parse, the regex
\*   ^\{([PG])(?:\s+(\d+)(?::(\d+))?)?(\s+[^\s0-9].*?)\s*\}$
\* and the loop over its items.
ChoiceList_parse(string) ==
  IF ~Braced(string) THEN None
  ELSE
    LET body == Body(string)
        r1 == Drop(body, 1)
        ws == PrefixLen(r1, RegexSpace)
        r2 == Drop(r1, ws)
        n1 == PrefixLen(r2, RegexDigit)
        r3 == Drop(r2, n1)
        n2 == IF r3 # << >> /\ r3[1] = ":" THEN PrefixLen(Drop(r3, 1), RegexDigit) ELSE 0
        r4 == IF n2 > 0 THEN Drop(r3, n2 + 1) ELSE r3
        \* the optional group with the reference is tried first
        withRef == ws > 0 /\ n1 > 0 /\ IsSome(ChoiceTail(r4))
        tail == IF withRef THEN ChoiceTail(r4) ELSE ChoiceTail(r1)
        items == IF IsSome(tail) THEN ChoiceItems(Unwrap(tail), << >>) ELSE None
    IN IF body # << >> /\ body[1] \in {"P", "G"} /\ IsSome(tail) /\ IsSome(items)
       THEN Some([kind |-> "Choice",
                  name |-> << body[1] >>,
                  indexref |-> IF withRef THEN parse_usize(Take(r2, n1)) ELSE None,
                  indexsubref |-> IF withRef /\ n2 > 0
                                  THEN parse_usize(SubSeq(r3, 2, n2 + 1))
                                  ELSE None,
                  choices |-> Unwrap(items)])
       ELSE None

\* ChoiceList::compile
RECURSIVE CompileChoices(_)
CompileChoices(choices) ==
  IF choices = << >> THEN << >>
  ELSE LET c == Head(choices)
       IN (IF c = << >> \/ \E i \in 1..Len(c) : is_ascii_whitespace(c[i])
           THEN << " ", QUOTE >> \o c \o << QUOTE >>
           ELSE << " " >> \o c)
          \o CompileChoices(Tail(choices))

ChoiceList_compile(cl) ==
  << "{" >> \o cl.name
  \o (IF IsSome(cl.indexref)
      THEN << " " >> \o fmt_usize(Unwrap(cl.indexref))
           \o (IF IsSome(cl.indexsubref)
               THEN << ":" >> \o fmt_usize(Unwrap(cl.indexsubref))
               ELSE << >>)
      ELSE << >>)
  \o CompileChoices(cl.choices)
  \o << "}" >>

\* FragmentContent::parse trying ChoiceList before GenderDefinition.
FragmentContent_parse_ChoiceFirst(string) ==
  OptOr(StringCommand_parse(string),
        OptOr(ChoiceList_parse(string), GenderDefinition_parse(string)))

\* FragmentContent::parse: the three grammars in the order Command, Gender,
\* Choice; None stands for Err("Invalid string command: ...").
FragmentContent_parse(string) ==
  OptOr(StringCommand_parse(string),
        OptOr(GenderDefinition_parse(string), ChoiceList_parse(string)))

\* FragmentContent::compile
FragmentContent_compile(content) ==
  CASE content.kind = "Text" -> content.text
    [] content.kind = "Command" -> StringCommand_compile(content)
    [] content.kind = "Gender" -> GenderDefinition_compile(content)
    [] content.kind = "Choice" -> ChoiceList_compile(content)

\* The advance without the closing brace: `position += end`.
AdvanceDirective_WithoutBrace(rest, end) == str_len(Take(rest, end - 1))

\* What position is advanced by after a directive that ends at the 1-based
\* character index end of rest: `position += end + 1`, end being the byte
\* index of '}'.
AdvanceDirective(rest, end) == str_len(Take(rest, end))

\* ParsedString::parse.  The result is [ok |-> TRUE, fragments |-> ...] or
\* [ok |-> FALSE, message |-> ..., position |-> ..., text |-> ...]: the
\* message of the Err, with the value of `position` and the offending text at
\* the return.  A fragment is [position |-> ..., content |-> ...].
RECURSIVE ParseLoop(_, _, _)
ParseLoop(rest, position, fragments) ==
  IF rest = << >> THEN [ok |-> TRUE, fragments |-> fragments]
  ELSE
    LET start == str_find(rest, "{")
    IN IF start = 0
       THEN [ok |-> TRUE,
             fragments |-> Append(fragments,
                 [position |-> position,
                  content |-> [kind |-> "Text", text |-> rest]])]
       ELSE
         LET text0 == Take(rest, start - 1)
             fragments1 ==
               IF start > 1
               THEN Append(fragments,
                      [position |-> position,
                       content |-> [kind |-> "Text", text |-> text0]])
               ELSE fragments
             directive(rest1, position1, end, text, content) ==
               IF end = 0
               THEN [ok |-> FALSE,
                     message |-> <<"Unterminated string command, '}' expected.">>,
                     position |-> position1, text |-> rest1]
               ELSE IF content = None
               THEN [ok |-> FALSE, message |-> <<"Invalid string command: '{}'", text>>,
                     position |-> position1, text |-> text]
               ELSE ParseLoop(Drop(rest1, end),
                              position1 + AdvanceDirective(rest1, end),
                              Append(fragments1,
                                     [position |-> position1,
                                      content |-> Unwrap(content)]))
             found(rest1, end) ==
               directive(rest1, position + str_len(text0), end, Take(rest1, end),
                         FragmentContent_parse(Take(rest1, end)))
             opened(rest1) == found(rest1, str_find(rest1, "}"))
         IN opened(Drop(rest, start - 1))

ParsedString_parse(string) == ParseLoop(string, 0, << >>)

\* ParsedString::compile
RECURSIVE ParsedString_compile(_)
ParsedString_compile(fragments) ==
  IF fragments = << >> THEN << >>
  ELSE FragmentContent_compile(Head(fragments).content)
       \o ParsedString_compile(Tail(fragments))

\* ------------------------------------------------------------ the registry
\* commands.rs is not among the sources; the entries below are the ones the
\* tests of validate.rs rely on, with the properties those tests show.

Dialects == {"newgrf", "game-script", "openttd"}

PAR_PLURAL == [allow_plural |-> TRUE, allow_gender |-> FALSE]

PAR_GENDER == [allow_plural |-> FALSE, allow_gender |-> TRUE]

PAR_PLURAL_GENDER == [allow_plural |-> TRUE, allow_gender |-> TRUE]

PAR_NONE == [allow_plural |-> FALSE, allow_gender |-> FALSE]

CommandInfo(name, norm_name, dialects, occurence, allow_case, def_plural_subindex, parameters) ==
  [name |-> name, norm_name |-> norm_name, dialects |-> dialects,
   occurence |-> occurence, allow_case |-> allow_case,
   def_plural_subindex |-> def_plural_subindex, parameters |-> parameters]

COMMANDS ==
  << CommandInfo(<< >>, None, Dialects, "ANY", FALSE, None, << >>),
     CommandInfo(<<"{">>, None, Dialects, "ANY", FALSE, None, << >>),
     CommandInfo(<<"N", "B", "S", "P">>, None, Dialects, "ANY", FALSE, None, << >>),
     CommandInfo(<<"R", "E", "D">>, None, Dialects, "NONZERO", FALSE, None, << >>),
     CommandInfo(<<"G", "R", "E", "E", "N">>, None, Dialects, "NONZERO", FALSE, None,
                 << >>),
     CommandInfo(<<"T", "R", "A", "I", "N">>, None, Dialects, "EXACT", FALSE, None,
                 << >>),
     CommandInfo(<<"B", "I", "G", "_", "F", "O", "N", "T">>, None, Dialects, "EXACT",
                 FALSE, None, << >>),
     CommandInfo(<<"N", "U", "M">>, None, Dialects, "EXACT", FALSE, None,
                 << PAR_PLURAL >>),
     CommandInfo(<<"C", "O", "M", "M", "A">>, None, Dialects, "EXACT", FALSE, None,
                 << PAR_PLURAL >>),
     CommandInfo(<<"S", "T", "R", "I", "N", "G">>, None, Dialects, "EXACT", TRUE, None,
                 << PAR_GENDER >>),
     CommandInfo(<<"S", "T", "R", "I", "N", "G", "3">>, Some(<<"S", "T", "R", "I", "N", "G">>),
                 Dialects, "EXACT", TRUE, None,
                 << PAR_GENDER, PAR_PLURAL_GENDER, PAR_PLURAL_GENDER, PAR_PLURAL_GENDER >>),
     CommandInfo(<<"S", "T", "R", "I", "N", "G", "5">>, Some(<<"S", "T", "R", "I", "N", "G">>),
                 Dialects, "EXACT", TRUE, None,
                 << PAR_GENDER, PAR_PLURAL_GENDER, PAR_PLURAL_GENDER, PAR_PLURAL_GENDER,
                    PAR_PLURAL_GENDER, PAR_PLURAL_GENDER >>),
     CommandInfo(<<"R", "A", "W", "_", "S", "T", "R", "I", "N", "G">>,
                 Some(<<"S", "T", "R", "I", "N", "G">>), {"openttd"}, "EXACT", TRUE, None,
                 << PAR_GENDER >>),
     CommandInfo(<<"C", "A", "R", "G", "O", "_", "L", "O", "N", "G">>, None, Dialects,
                 "EXACT", FALSE, Some(1), << PAR_NONE, PAR_PLURAL >>) >>

\* CommandInfo::get_norm_name
get_norm_name(info) == UnwrapOr(info.norm_name, info.name)

\* COMMANDS.into_iter().find(|ci| ci.name == name && ci.dialects.contains(dialect))
FindCommand(name, dialect) ==
  LET find(commands) ==
        LET hits == {i \in 1..Len(commands) :
                       commands[i].name = name /\ dialect \in commands[i].dialects}
        IN IF hits = {} THEN None
           ELSE Some(commands[CHOOSE i \in hits : \A j \in hits : i <= j])
  IN find(COMMANDS)

\* The order of String keys in a BTreeMap: bytewise.  The characters of the
\* names of the registry, in ASCII order.
NameChars ==
  <<"0", "1", "2", "3", "4", "5", "6", "7", "8", "9",
    "A", "B", "C", "D", "E", "F", "G", "H", "I", "J", "K", "L", "M",
    "N", "O", "P", "Q", "R", "S", "T", "U", "V", "W", "X", "Y", "Z", "_", "{">>

CharRank(c) == CHOOSE i \in 1..Len(NameChars) : NameChars[i] = c

RECURSIVE StringLess(_, _)
StringLess(a, b) ==
  IF b = << >> THEN FALSE
  ELSE IF a = << >> THEN TRUE
  ELSE IF Head(a) = Head(b) THEN StringLess(Tail(a), Tail(b))
  ELSE CharRank(Head(a)) < CharRank(Head(b))

\* The keys of a set of names in the iteration order of a BTreeMap.
RECURSIVE SortedNames(_)
SortedNames(names) ==
  IF names = {} THEN << >>
  ELSE LET least == CHOOSE n \in names : \A m \in names \ {n} : StringLess(n, m)
       IN << least >> \o SortedNames(names \ {least})

\* ------------------------------------------------------------------ state

VARIABLES
  overflow_checks,  \* the build: TRUE when integer overflow panics (debug),
                    \* FALSE when it wraps (release)
  config,           \* LanguageConfig
  base,             \* the base string (the input of the parser pipeline)
  case,             \* the case argument of validate_translation
  translation,      \* the translation string
  parsed,           \* the ParsedString of the parser pipeline, None before parse
  history,          \* the operations applied to parsed so far
  compiled,         \* what ParsedString::compile returned last
  calls,            \* the calls of the entry points made so far, with results
  scan              \* the call of validate_string that is followed step by step

vars ==
  << overflow_checks, config, base, case, translation, parsed, history, compiled,
     calls, scan >>

\* ------------------------------------------------------------ validate.rs

\* allow_cases allowing cases in every dialect.
allow_cases_EveryDialect(cfg) == TRUE

\* LanguageConfig::allow_cases
allow_cases(cfg) == cfg.dialect # "game-script"

\* LanguageConfig::allow_genders
allow_genders(cfg) == cfg.dialect # "game-script"

\* Vec::contains
Contains(seq, v) == \E i \in 1..Len(seq) : seq[i] = v

ValidationError(severity, pos_begin, pos_end, message, suggestion) ==
  [severity |-> severity, pos_begin |-> pos_begin, pos_end |-> pos_end,
   message |-> message, suggestion |-> suggestion]

\* `pos += 1` on a usize: past usize::MAX the build decides between a panic
\* and wrapping to 0.
Overflows(pos) == pos = UsizeMax

AddOne(pos) == IF pos = UsizeMax THEN 0 ELSE pos + 1

\* HashMap / BTreeMap insert or overwrite
Put(map, key, value) ==
  [k \in DOMAIN map \cup {key} |-> IF k = key THEN value ELSE map[k]]

EmptyMap == [k \in {} |-> 0]

MapGet(map, key) == IF key \in DOMAIN map THEN Some(map[key]) ELSE None

\* The fragments with the span validate.rs reads from them: pos_begin is the
\* position the parser stored, pos_end the position after the fragment.
Spanned(fragments, end) ==
  [i \in 1..Len(fragments) |->
     [pos_begin |-> fragments[i].position,
      pos_end |-> IF i < Len(fragments) THEN fragments[i + 1].position ELSE end,
      content |-> fragments[i].content]]

\* One iteration of the loop of get_signature.
GetSignatureStep(st, fragment, dialect) ==
  IF st.panic \/ fragment.content.kind # "Command" THEN st
  ELSE
    LET cmd == fragment.content
        found == FindCommand(cmd.name, dialect)
        info == Unwrap(found)
        norm_name == get_norm_name(info)
        pos == IF IsSome(cmd.index) THEN Unwrap(cmd.index) ELSE st.pos
    IN IF found = None
       THEN [st EXCEPT !.errors = Append(@,
               ValidationError("Error", Some(fragment.pos_begin), Some(fragment.pos_end),
                 <<"Unknown string command '{{{}}}'.", cmd.name>>, None))]
       ELSE IF info.parameters = << >>
       THEN [st EXCEPT
               !.errors =
                 IF IsSome(cmd.index)
                 THEN Append(@,
                        ValidationError("Error", Some(fragment.pos_begin),
                          Some(fragment.pos_end),
                          <<"Command '{{{}}}' cannot have a position reference.", cmd.name>>,
                          Some(<<"Remove '{}:'.", Unwrap(cmd.index)>>)))
                 ELSE @,
               !.nonpositional_count =
                 IF norm_name \in DOMAIN @
                 THEN Put(@, norm_name, <<@[norm_name][1], @[norm_name][2] + 1>>)
                 ELSE Put(@, norm_name, <<info.occurence, 1>>)]
       ELSE [st EXCEPT
               !.parameters =
                 IF pos \in DOMAIN @
                 THEN Put(@, pos, <<@[pos][1], @[pos][2] + 1>>)
                 ELSE Put(@, pos, <<info, 1>>),
               !.pos = AddOne(pos),
               !.panic = overflow_checks /\ Overflows(pos)]

RECURSIVE GetSignatureLoop(_, _, _, _)
GetSignatureLoop(st, fragments, i, dialect) ==
  IF i > Len(fragments) THEN st
  ELSE GetSignatureLoop(GetSignatureStep(st, fragments[i], dialect), fragments, i + 1,
                        dialect)

\* get_signature: [panic, ok, signature, errors]; ok is Ok(signature), ~ok is
\* Err(errors).
get_signature(dialect, fragments) ==
  LET of_loop(st) ==
        [panic |-> st.panic,
         ok |-> st.errors = << >>,
         signature |-> [parameters |-> st.parameters,
                        nonpositional_count |-> st.nonpositional_count],
         errors |-> st.errors]
  IN of_loop(GetSignatureLoop(
               [errors |-> << >>, parameters |-> EmptyMap,
                nonpositional_count |-> EmptyMap, pos |-> 0, panic |-> FALSE],
               fragments, 1, dialect))

\* The suggestion "Known cases are: ..." / "Known genders are: ..." with the
\* joined list.
KnownList(what, list) == Some(<<what, list>>)

\* validate_string, the arm FragmentContent::Command of the loop.
ValidateCommand(st, fragment, signature, cfg) ==
  LET cmd == fragment.content
      at == Some(fragment.pos_begin)
      to == Some(fragment.pos_end)
      opt_expected ==
        IF UnwrapOr(cmd.index, st.pos) \in DOMAIN signature.parameters
        THEN Some(signature.parameters[UnwrapOr(cmd.index, st.pos)][1])
        ELSE None
      opt_info ==
        IF IsSome(opt_expected) /\ get_norm_name(Unwrap(opt_expected)) = cmd.name
        THEN opt_expected
        ELSE FindCommand(cmd.name, cfg.dialect)
      info == Unwrap(opt_info)
      expected == Unwrap(opt_expected)
      case_errors ==
        IF cmd.case = None THEN << >>
        ELSE IF ~allow_cases(cfg)
        THEN << ValidationError("Error", at, to, <<"No case selections allowed.">>,
                  Some(<<"Remove '.{}'.", Unwrap(cmd.case)>>)) >>
        ELSE IF ~info.allow_case
        THEN << ValidationError("Error", at, to,
                  <<"No case selection allowed for '{{{}}}'.", cmd.name>>,
                  Some(<<"Remove '.{}'.", Unwrap(cmd.case)>>)) >>
        ELSE IF ~Contains(cfg.cases, Unwrap(cmd.case))
        THEN << ValidationError("Error", at, to, <<"Unknown case '{}'.", Unwrap(cmd.case)>>,
                  KnownList("Known cases are: '{}'", cfg.cases)) >>
        ELSE << >>
      norm_name == get_norm_name(info)
      pos == IF IsSome(cmd.index) THEN Unwrap(cmd.index) ELSE st.pos
  IN IF opt_info = None
     THEN [st EXCEPT
             !.errors = Append(@,
               ValidationError("Error", at, to,
                 <<"Unknown string command '{{{}}}'.", cmd.name>>, None)),
             !.front = 2]
     ELSE IF info.parameters = << >>
     THEN [st EXCEPT
             !.errors =
               @ \o case_errors
               \o (IF IsSome(cmd.index)
                   THEN << ValidationError("Error", at, to,
                             <<"Command '{{{}}}' cannot have a position reference.",
                               cmd.name>>,
                             Some(<<"Remove '{}:'.", Unwrap(cmd.index)>>)) >>
                   ELSE << >>),
             !.nonpositional_count =
               IF norm_name \in DOMAIN @
               THEN Put(@, norm_name, <<@[norm_name][1], @[norm_name][2] + 1>>)
               ELSE Put(@, norm_name, <<info.occurence, 1>>),
             !.front = 2]
     ELSE [st EXCEPT
             !.errors =
               @ \o case_errors
               \o (IF opt_expected = None
                   THEN << ValidationError("Error", at, to,
                             <<"There is no parameter in position {}, found '{{{}}}'.",
                               pos, cmd.name>>, None) >>
                   ELSE IF get_norm_name(expected) = get_norm_name(info)
                   THEN << >>
                   ELSE << ValidationError("Error", at, to,
                             <<"Expected '{{{}:{}}}', found '{{{}}}'.",
                               pos, expected.name, cmd.name>>, None) >>),
             !.positional_count =
               IF IsSome(opt_expected) /\ get_norm_name(expected) = get_norm_name(info)
               THEN Put(@, pos, IF pos \in DOMAIN @ THEN @[pos] + 1 ELSE 1)
               ELSE @,
             !.pos = AddOne(pos),
             !.panic = overflow_checks /\ Overflows(pos),
             !.front = 2]

\* ValidateGender accepting a second gender definition at the front.
ValidateGender_DuplicateAccepted(st, fragment, cfg) ==
  LET g == fragment.content
      at == Some(fragment.pos_begin)
      to == Some(fragment.pos_end)
  IN IF ~allow_genders(cfg) \/ Len(cfg.genders) < 2
     THEN [st EXCEPT !.errors = Append(@,
             ValidationError("Error", at, to, <<"No gender definitions allowed.">>,
               Some(<<"Remove '{G=...}'.">>)))]
     ELSE IF st.front = 2
     THEN [st EXCEPT !.errors = Append(@,
             ValidationError("Warning", at, to,
               <<"Gender definitions must be at the front.">>,
               Some(<<"Move '{G=...}' to the front of the translation.">>)))]
     ELSE IF st.front = 1
     THEN st
     ELSE [st EXCEPT
             !.front = 1,
             !.errors =
               IF ~Contains(cfg.genders, g.gender)
               THEN Append(@,
                      ValidationError("Error", at, to, <<"Unknown gender '{}'.", g.gender>>,
                        KnownList("Known genders are: '{}'", cfg.genders)))
               ELSE @]

\* validate_string, the arm FragmentContent::Gender of the loop.
ValidateGender(st, fragment, cfg) ==
  LET g == fragment.content
      at == Some(fragment.pos_begin)
      to == Some(fragment.pos_end)
  IN IF ~allow_genders(cfg) \/ Len(cfg.genders) < 2
     THEN [st EXCEPT !.errors = Append(@,
             ValidationError("Error", at, to, <<"No gender definitions allowed.">>,
               Some(<<"Remove '{G=...}'.">>)))]
     ELSE IF st.front = 2
     THEN [st EXCEPT !.errors = Append(@,
             ValidationError("Warning", at, to,
               <<"Gender definitions must be at the front.">>,
               Some(<<"Move '{G=...}' to the front of the translation.">>)))]
     ELSE IF st.front = 1
     THEN [st EXCEPT !.errors = Append(@,
             ValidationError("Warning", at, to, <<"Duplicate gender definition.">>,
               Some(<<"Remove the second '{G=...}'.">>)))]
     ELSE [st EXCEPT
             !.front = 1,
             !.errors =
               IF ~Contains(cfg.genders, g.gender)
               THEN Append(@,
                      ValidationError("Error", at, to, <<"Unknown gender '{}'.", g.gender>>,
                        KnownList("Known genders are: '{}'", cfg.genders)))
               ELSE @]

\* isize::try_from(v).ok()
isize_try_from(v) == IF v <= UsizeMax \div 2 THEN Some(v) ELSE None

\* ValidateChoice giving up the reference check after a wrong number of
\* choices.
ValidateChoice_CardinalityEndsCheck(st, fragment, signature, cfg) ==
  LET cmd == fragment.content
      at == Some(fragment.pos_begin)
      to == Some(fragment.pos_end)
      implicit_ref_pos ==
        IF cmd.name = <<"P">>
        THEN (IF st.pos = 0 THEN None ELSE Some(st.pos - 1))
        ELSE Some(st.pos)
      opt_ref_pos == OptOr(cmd.indexref, implicit_ref_pos)
      resolved == IsSome(opt_ref_pos) /\ Unwrap(opt_ref_pos) \in DOMAIN signature.parameters
      ref_pos == Unwrap(opt_ref_pos)
      ref_info == signature.parameters[ref_pos][1]
      ref_norm_name == get_norm_name(ref_info)
      ref_subpos ==
        IF cmd.name = <<"P">>
        THEN UnwrapOr(OptOr(cmd.indexsubref, ref_info.def_plural_subindex), 0)
        ELSE UnwrapOr(cmd.indexsubref, 0)
      par_info == ref_info.parameters[ref_subpos + 1]
      expected_count == IF cmd.name = <<"P">> THEN cfg.plural_count ELSE Len(cfg.genders)
      count_errors ==
        IF Len(cmd.choices) # expected_count
        THEN << ValidationError("Error", at, to,
                  <<IF cmd.name = <<"P">> THEN "Expected {} plural choices, found {}."
                                          ELSE "Expected {} gender choices, found {}.",
                    expected_count, Len(cmd.choices)>>, None) >>
        ELSE << >>
      ref_errors ==
        IF ~resolved
        THEN << ValidationError("Error", at, to,
                  <<"'{{{}}}' references position '{}', which has no parameter.", cmd.name,
                    IF IsSome(opt_ref_pos) /\ IsSome(isize_try_from(ref_pos))
                    THEN ref_pos ELSE -1>>,
                  IF cmd.indexref = None THEN Some(<<"Add a position reference.">>)
                                         ELSE None) >>
        ELSE IF ref_subpos >= Len(ref_info.parameters)
        THEN << ValidationError("Error", at, to,
                  <<"'{{{}}}' references position '{}:{}', but '{{{}:{}}}' only has {} subindices.",
                    cmd.name, ref_pos, ref_subpos, ref_pos, ref_norm_name,
                    Len(ref_info.parameters)>>, None) >>
        ELSE IF cmd.name = <<"P">> /\ ~par_info.allow_plural
        THEN << ValidationError("Error", at, to,
                  <<"'{{{}}}' references position '{}:{}', but '{{{}:{}}}' does not allow plurals.",
                    cmd.name, ref_pos, ref_subpos, ref_pos, ref_norm_name>>, None) >>
        ELSE IF cmd.name = <<"G">> /\ ~par_info.allow_gender
        THEN << ValidationError("Error", at, to,
                  <<"'{{{}}}' references position '{}:{}', but '{{{}:{}}}' does not allow genders.",
                    cmd.name, ref_pos, ref_subpos, ref_pos, ref_norm_name>>, None) >>
        ELSE << >>
  IN IF cmd.name \notin {<<"P">>, <<"G">>}
     THEN [st EXCEPT !.panic = TRUE]
     ELSE IF cmd.name = <<"G">> /\ (~allow_genders(cfg) \/ Len(cfg.genders) < 2)
     THEN [st EXCEPT
             !.errors = Append(@,
               ValidationError("Error", at, to, <<"No gender choices allowed.">>,
                 Some(<<"Remove '{G ...}'.">>))),
             !.front = 2]
     ELSE IF cmd.name = <<"P">> /\ cfg.plural_count < 2
     THEN [st EXCEPT
             !.errors = Append(@,
               ValidationError("Error", at, to, <<"No plural choices allowed.">>,
                 Some(<<"Remove '{P ...}'.">>))),
             !.front = 2]
     ELSE [st EXCEPT !.errors = @ \o (IF count_errors # << >> THEN count_errors ELSE ref_errors), !.front = 2]

\* ValidateChoice taking the sub-index 0 for every list without indexsubref.
ValidateChoice_WithoutDefaultSubindex(st, fragment, signature, cfg) ==
  LET cmd == fragment.content
      at == Some(fragment.pos_begin)
      to == Some(fragment.pos_end)
      implicit_ref_pos ==
        IF cmd.name = <<"P">>
        THEN (IF st.pos = 0 THEN None ELSE Some(st.pos - 1))
        ELSE Some(st.pos)
      opt_ref_pos == OptOr(cmd.indexref, implicit_ref_pos)
      resolved == IsSome(opt_ref_pos) /\ Unwrap(opt_ref_pos) \in DOMAIN signature.parameters
      ref_pos == Unwrap(opt_ref_pos)
      ref_info == signature.parameters[ref_pos][1]
      ref_norm_name == get_norm_name(ref_info)
      ref_subpos ==
        IF cmd.name = <<"P">>
        THEN UnwrapOr(cmd.indexsubref, 0)
        ELSE UnwrapOr(cmd.indexsubref, 0)
      par_info == ref_info.parameters[ref_subpos + 1]
      expected_count == IF cmd.name = <<"P">> THEN cfg.plural_count ELSE Len(cfg.genders)
      count_errors ==
        IF Len(cmd.choices) # expected_count
        THEN << ValidationError("Error", at, to,
                  <<IF cmd.name = <<"P">> THEN "Expected {} plural choices, found {}."
                                          ELSE "Expected {} gender choices, found {}.",
                    expected_count, Len(cmd.choices)>>, None) >>
        ELSE << >>
      ref_errors ==
        IF ~resolved
        THEN << ValidationError("Error", at, to,
                  <<"'{{{}}}' references position '{}', which has no parameter.", cmd.name,
                    IF IsSome(opt_ref_pos) /\ IsSome(isize_try_from(ref_pos))
                    THEN ref_pos ELSE -1>>,
                  IF cmd.indexref = None THEN Some(<<"Add a position reference.">>)
                                         ELSE None) >>
        ELSE IF ref_subpos >= Len(ref_info.parameters)
        THEN << ValidationError("Error", at, to,
                  <<"'{{{}}}' references position '{}:{}', but '{{{}:{}}}' only has {} subindices.",
                    cmd.name, ref_pos, ref_subpos, ref_pos, ref_norm_name,
                    Len(ref_info.parameters)>>, None) >>
        ELSE IF cmd.name = <<"P">> /\ ~par_info.allow_plural
        THEN << ValidationError("Error", at, to,
                  <<"'{{{}}}' references position '{}:{}', but '{{{}:{}}}' does not allow plurals.",
                    cmd.name, ref_pos, ref_subpos, ref_pos, ref_norm_name>>, None) >>
        ELSE IF cmd.name = <<"G">> /\ ~par_info.allow_gender
        THEN << ValidationError("Error", at, to,
                  <<"'{{{}}}' references position '{}:{}', but '{{{}:{}}}' does not allow genders.",
                    cmd.name, ref_pos, ref_subpos, ref_pos, ref_norm_name>>, None) >>
        ELSE << >>
  IN IF cmd.name \notin {<<"P">>, <<"G">>}
     THEN [st EXCEPT !.panic = TRUE]
     ELSE IF cmd.name = <<"G">> /\ (~allow_genders(cfg) \/ Len(cfg.genders) < 2)
     THEN [st EXCEPT
             !.errors = Append(@,
               ValidationError("Error", at, to, <<"No gender choices allowed.">>,
                 Some(<<"Remove '{G ...}'.">>))),
             !.front = 2]
     ELSE IF cmd.name = <<"P">> /\ cfg.plural_count < 2
     THEN [st EXCEPT
             !.errors = Append(@,
               ValidationError("Error", at, to, <<"No plural choices allowed.">>,
                 Some(<<"Remove '{P ...}'.">>))),
             !.front = 2]
     ELSE [st EXCEPT !.errors = @ \o count_errors \o ref_errors, !.front = 2]

\* validate_string, the arm FragmentContent::Choice of the loop.
ValidateChoice(st, fragment, signature, cfg) ==
  LET cmd == fragment.content
      at == Some(fragment.pos_begin)
      to == Some(fragment.pos_end)
      implicit_ref_pos ==
        IF cmd.name = <<"P">>
        THEN (IF st.pos = 0 THEN None ELSE Some(st.pos - 1))
        ELSE Some(st.pos)
      opt_ref_pos == OptOr(cmd.indexref, implicit_ref_pos)
      resolved == IsSome(opt_ref_pos) /\ Unwrap(opt_ref_pos) \in DOMAIN signature.parameters
      ref_pos == Unwrap(opt_ref_pos)
      ref_info == signature.parameters[ref_pos][1]
      ref_norm_name == get_norm_name(ref_info)
      ref_subpos ==
        IF cmd.name = <<"P">>
        THEN UnwrapOr(OptOr(cmd.indexsubref, ref_info.def_plural_subindex), 0)
        ELSE UnwrapOr(cmd.indexsubref, 0)
      par_info == ref_info.parameters[ref_subpos + 1]
      expected_count == IF cmd.name = <<"P">> THEN cfg.plural_count ELSE Len(cfg.genders)
      count_errors ==
        IF Len(cmd.choices) # expected_count
        THEN << ValidationError("Error", at, to,
                  <<IF cmd.name = <<"P">> THEN "Expected {} plural choices, found {}."
                                          ELSE "Expected {} gender choices, found {}.",
                    expected_count, Len(cmd.choices)>>, None) >>
        ELSE << >>
      ref_errors ==
        IF ~resolved
        THEN << ValidationError("Error", at, to,
                  <<"'{{{}}}' references position '{}', which has no parameter.", cmd.name,
                    IF IsSome(opt_ref_pos) /\ IsSome(isize_try_from(ref_pos))
                    THEN ref_pos ELSE -1>>,
                  IF cmd.indexref = None THEN Some(<<"Add a position reference.">>)
                                         ELSE None) >>
        ELSE IF ref_subpos >= Len(ref_info.parameters)
        THEN << ValidationError("Error", at, to,
                  <<"'{{{}}}' references position '{}:{}', but '{{{}:{}}}' only has {} subindices.",
                    cmd.name, ref_pos, ref_subpos, ref_pos, ref_norm_name,
                    Len(ref_info.parameters)>>, None) >>
        ELSE IF cmd.name = <<"P">> /\ ~par_info.allow_plural
        THEN << ValidationError("Error", at, to,
                  <<"'{{{}}}' references position '{}:{}', but '{{{}:{}}}' does not allow plurals.",
                    cmd.name, ref_pos, ref_subpos, ref_pos, ref_norm_name>>, None) >>
        ELSE IF cmd.name = <<"G">> /\ ~par_info.allow_gender
        THEN << ValidationError("Error", at, to,
                  <<"'{{{}}}' references position '{}:{}', but '{{{}:{}}}' does not allow genders.",
                    cmd.name, ref_pos, ref_subpos, ref_pos, ref_norm_name>>, None) >>
        ELSE << >>
  IN IF cmd.name \notin {<<"P">>, <<"G">>}
     THEN [st EXCEPT !.panic = TRUE]
     ELSE IF cmd.name = <<"G">> /\ (~allow_genders(cfg) \/ Len(cfg.genders) < 2)
     THEN [st EXCEPT
             !.errors = Append(@,
               ValidationError("Error", at, to, <<"No gender choices allowed.">>,
                 Some(<<"Remove '{G ...}'.">>))),
             !.front = 2]
     ELSE IF cmd.name = <<"P">> /\ cfg.plural_count < 2
     THEN [st EXCEPT
             !.errors = Append(@,
               ValidationError("Error", at, to, <<"No plural choices allowed.">>,
                 Some(<<"Remove '{P ...}'.">>))),
             !.front = 2]
     ELSE [st EXCEPT !.errors = @ \o count_errors \o ref_errors, !.front = 2]

\* ValidateStep passing over a command that is written with an index.
ValidateStep_IndexedCommandSkipped(st, fragment, signature, cfg) ==
  IF st.panic THEN st
  ELSE CASE fragment.content.kind = "Command" ->
              IF IsSome(fragment.content.index)
              THEN [st EXCEPT !.front = 2]
              ELSE ValidateCommand(st, fragment, signature, cfg)
         [] fragment.content.kind = "Gender" -> ValidateGender(st, fragment, cfg)
         [] fragment.content.kind = "Choice" ->
              ValidateChoice(st, fragment, signature, cfg)
         [] fragment.content.kind = "Text" -> [st EXCEPT !.front = 2]

\* One iteration of the loop of validate_string over the fragments of test.
ValidateStep(st, fragment, signature, cfg) ==
  IF st.panic THEN st
  ELSE CASE fragment.content.kind = "Command" ->
              ValidateCommand(st, fragment, signature, cfg)
         [] fragment.content.kind = "Gender" -> ValidateGender(st, fragment, cfg)
         [] fragment.content.kind = "Choice" ->
              ValidateChoice(st, fragment, signature, cfg)
         [] fragment.content.kind = "Text" -> [st EXCEPT !.front = 2]

RECURSIVE ValidateLoop(_, _, _, _, _)
ValidateLoop(st, fragments, i, signature, cfg) ==
  IF i > Len(fragments) THEN st
  ELSE ValidateLoop(ValidateStep(st, fragments[i], signature, cfg), fragments, i + 1,
                    signature, cfg)

\* PositionalPass reporting a count that differs as an Error.
RECURSIVE PositionalPass_MismatchIsError(_, _, _)
PositionalPass_MismatchIsError(order, signature, positional_count) ==
  IF order = << >> THEN << >>
  ELSE
    LET pos == Head(order)
        info == signature.parameters[pos][1]
        ex_count == signature.parameters[pos][2]
        norm_name == get_norm_name(info)
        found_count == IF pos \in DOMAIN positional_count THEN positional_count[pos] ELSE 0
    IN (IF info.occurence # "ANY" /\ found_count = 0
        THEN << ValidationError("Error", None, None,
                  <<"String command '{{{}:{}}}' is missing.", pos, norm_name>>, None) >>
        ELSE IF info.occurence = "EXACT" /\ ex_count # found_count
        THEN << ValidationError("Error", None, None,
                  <<"String command '{{{}:{}}}': expected {} times, found {} times.",
                    pos, norm_name, ex_count, found_count>>, None) >>
        ELSE << >>)
       \o PositionalPass_MismatchIsError(Tail(order), signature, positional_count)

\* validate_string, the pass over signature.parameters after the loop.  A
\* HashMap is iterated in the order of its hasher, which is seeded per map:
\* order is the order in which this call visits the positions.
RECURSIVE PositionalPass(_, _, _)
PositionalPass(order, signature, positional_count) ==
  IF order = << >> THEN << >>
  ELSE
    LET pos == Head(order)
        info == signature.parameters[pos][1]
        ex_count == signature.parameters[pos][2]
        norm_name == get_norm_name(info)
        found_count == IF pos \in DOMAIN positional_count THEN positional_count[pos] ELSE 0
    IN (IF info.occurence # "ANY" /\ found_count = 0
        THEN << ValidationError("Error", None, None,
                  <<"String command '{{{}:{}}}' is missing.", pos, norm_name>>, None) >>
        ELSE IF info.occurence = "EXACT" /\ ex_count # found_count
        THEN << ValidationError("Warning", None, None,
                  <<"String command '{{{}:{}}}': expected {} times, found {} times.",
                    pos, norm_name, ex_count, found_count>>, None) >>
        ELSE << >>)
       \o PositionalPass(Tail(order), signature, positional_count)

\* NonpositionalPass reporting a missing command as an Error.
RECURSIVE NonpositionalPass_MissingIsError(_, _, _)
NonpositionalPass_MissingIsError(names, signature, nonpositional_count) ==
  IF names = << >> THEN << >>
  ELSE
    LET norm_name == Head(names)
        occurence == signature.nonpositional_count[norm_name][1]
        ex_count == signature.nonpositional_count[norm_name][2]
        found_count == IF norm_name \in DOMAIN nonpositional_count
                       THEN nonpositional_count[norm_name][2] ELSE 0
    IN (IF occurence # "ANY" /\ found_count = 0
        THEN << ValidationError("Error", None, None,
                  <<"String command '{{{}}}' is missing.", norm_name>>, None) >>
        ELSE IF occurence = "EXACT" /\ ex_count # found_count
        THEN << ValidationError("Warning", None, None,
                  <<"String command '{{{}}}': expected {} times, found {} times.",
                    norm_name, ex_count, found_count>>, None) >>
        ELSE << >>)
       \o NonpositionalPass_MissingIsError(Tail(names), signature, nonpositional_count)

\* validate_string, the pass over signature.nonpositional_count (a BTreeMap:
\* in the order of the names).
RECURSIVE NonpositionalPass(_, _, _)
NonpositionalPass(names, signature, nonpositional_count) ==
  IF names = << >> THEN << >>
  ELSE
    LET norm_name == Head(names)
        occurence == signature.nonpositional_count[norm_name][1]
        ex_count == signature.nonpositional_count[norm_name][2]
        found_count == IF norm_name \in DOMAIN nonpositional_count
                       THEN nonpositional_count[norm_name][2] ELSE 0
    IN (IF occurence # "ANY" /\ found_count = 0
        THEN << ValidationError("Warning", None, None,
                  <<"String command '{{{}}}' is missing.", norm_name>>, None) >>
        ELSE IF occurence = "EXACT" /\ ex_count # found_count
        THEN << ValidationError("Warning", None, None,
                  <<"String command '{{{}}}': expected {} times, found {} times.",
                    norm_name, ex_count, found_count>>, None) >>
        ELSE << >>)
       \o NonpositionalPass(Tail(names), signature, nonpositional_count)

\* validate_string, the pass over the nonpositional_count of the candidate.
RECURSIVE UnexpectedPass(_, _, _)
UnexpectedPass(names, signature, nonpositional_count) ==
  IF names = << >> THEN << >>
  ELSE
    LET norm_name == Head(names)
    IN (IF /\ nonpositional_count[norm_name][1] # "ANY"
           /\ norm_name \notin DOMAIN signature.nonpositional_count
        THEN << ValidationError("Warning", None, None,
                  <<"String command '{{{}}}' is unexpected.", norm_name>>,
                  Some(<<"Remove this command.">>)) >>
        ELSE << >>)
       \o UnexpectedPass(Tail(names), signature, nonpositional_count)

BaseInvalid ==
  ValidationError("Error", None, None, <<"Base language text is invalid.">>,
                  Some(<<"This is a bug; wait until it is fixed.">>))

\* The sequences that hold every element of set exactly once.
Orders(set) ==
  {o \in [1..Cardinality(set) -> set] : \A i, j \in 1..Cardinality(set) : o[i] = o[j] => i = j}

\* The signature validate_string checks test against: that of base, or of
\* test itself when base is None.
SignatureOf(cfg, test, opt_base) ==
  get_signature(cfg.dialect, IF IsSome(opt_base) THEN Unwrap(opt_base) ELSE test)

\* The orders in which a call of validate_string may visit the positions of
\* its signature.
HashOrders(cfg, test, opt_base) ==
  Orders(DOMAIN SignatureOf(cfg, test, opt_base).signature.parameters)

\* validate_string handing the signature builder's errors of the base to the
\* caller, as it does in the self-check.
validate_string_BuilderErrors(cfg, test, opt_base, order) ==
  LET of_loop(signature, st) ==
        IF st.panic THEN [panic |-> TRUE, errors |-> << >>]
        ELSE [panic |-> FALSE,
              errors |->
                st.errors
                \o PositionalPass(order, signature, st.positional_count)
                \o NonpositionalPass(SortedNames(DOMAIN signature.nonpositional_count),
                                     signature, st.nonpositional_count)
                \o UnexpectedPass(SortedNames(DOMAIN st.nonpositional_count),
                                  signature, st.nonpositional_count)]
      of_signature(sig) ==
        IF sig.panic THEN [panic |-> TRUE, errors |-> << >>]
        ELSE IF ~sig.ok
        THEN [panic |-> FALSE,
              errors |-> sig.errors]
        ELSE of_loop(sig.signature,
                     ValidateLoop(
                       [errors |-> << >>, positional_count |-> EmptyMap,
                        nonpositional_count |-> EmptyMap, pos |-> 0, front |-> 0,
                        panic |-> FALSE],
                       test, 1, sig.signature, cfg))
  IN of_signature(SignatureOf(cfg, test, opt_base))

\* validate_string(config, test, base); order is the iteration order of
\* signature.parameters in this call.  [panic, errors].
validate_string(cfg, test, opt_base, order) ==
  LET of_loop(signature, st) ==
        IF st.panic THEN [panic |-> TRUE, errors |-> << >>]
        ELSE [panic |-> FALSE,
              errors |->
                st.errors
                \o PositionalPass(order, signature, st.positional_count)
                \o NonpositionalPass(SortedNames(DOMAIN signature.nonpositional_count),
                                     signature, st.nonpositional_count)
                \o UnexpectedPass(SortedNames(DOMAIN st.nonpositional_count),
                                  signature, st.nonpositional_count)]
      of_signature(sig) ==
        IF sig.panic THEN [panic |-> TRUE, errors |-> << >>]
        ELSE IF ~sig.ok
        THEN [panic |-> FALSE,
              errors |-> IF IsSome(opt_base) THEN << BaseInvalid >> ELSE sig.errors]
        ELSE of_loop(sig.signature,
                     ValidateLoop(
                       [errors |-> << >>, positional_count |-> EmptyMap,
                        nonpositional_count |-> EmptyMap, pos |-> 0, front |-> 0,
                        panic |-> FALSE],
                       test, 1, sig.signature, cfg))
  IN of_signature(SignatureOf(cfg, test, opt_base))

\* remove_ascii_ctrl dropping the control characters.
remove_ascii_ctrl_Dropping(t) == SelectSeq(t, LAMBDA c : ~is_ascii_control(c))

\* remove_ascii_ctrl
remove_ascii_ctrl(t) == [i \in 1..Len(t) |-> IF is_ascii_control(t[i]) THEN " " ELSE t[i]]

\* remove_trailing_blanks: t.truncate(t.trim_end().len())
RECURSIVE remove_trailing_blanks(_)
remove_trailing_blanks(t) ==
  IF t # << >> /\ is_whitespace(t[Len(t)])
  THEN remove_trailing_blanks(Take(t, Len(t) - 1))
  ELSE t

\* SanitizeLoop taking every command for the end of a line.
RECURSIVE SanitizeLoop_EveryCommandEndsLine(_, _, _)
SanitizeLoop_EveryCommandEndsLine(fragments, i, is_eol) ==
  IF i = 0 THEN fragments
  ELSE
    LET content == fragments[i].content
        cleaned ==
          CASE content.kind = "Text" ->
                 [content EXCEPT !.text =
                    IF is_eol THEN remove_trailing_blanks(remove_ascii_ctrl(@))
                    ELSE remove_ascii_ctrl(@)]
            [] content.kind = "Choice" ->
                 [content EXCEPT !.choices =
                    [k \in 1..Len(@) |-> remove_ascii_ctrl(@[k])]]
            [] OTHER -> content
        is_nl == content.kind = "Command"
    IN SanitizeLoop_EveryCommandEndsLine([fragments EXCEPT ![i].content = cleaned], i - 1, is_nl)

\* sanitize_whitespace: the loop from the last fragment to the first.
RECURSIVE SanitizeLoop(_, _, _)
SanitizeLoop(fragments, i, is_eol) ==
  IF i = 0 THEN fragments
  ELSE
    LET content == fragments[i].content
        cleaned ==
          CASE content.kind = "Text" ->
                 [content EXCEPT !.text =
                    IF is_eol THEN remove_trailing_blanks(remove_ascii_ctrl(@))
                    ELSE remove_ascii_ctrl(@)]
            [] content.kind = "Choice" ->
                 [content EXCEPT !.choices =
                    [k \in 1..Len(@) |-> remove_ascii_ctrl(@[k])]]
            [] OTHER -> content
        is_nl == content.kind = "Command" /\ content.name = << >>
    IN SanitizeLoop([fragments EXCEPT ![i].content = cleaned], i - 1, is_nl)

sanitize_whitespace(fragments) == SanitizeLoop(fragments, Len(fragments), TRUE)

\* NormalizeStep writing the index of a parameter after `pos += 1`.
NormalizeStep_IndexAfterIncrement(st, i, dialect) ==
  LET content == st.fragments[i].content
      found == FindCommand(content.name, dialect)
      info == Unwrap(found)
      renamed == IF IsSome(info.norm_name)
                 THEN [content EXCEPT !.name = Unwrap(info.norm_name)]
                 ELSE content
      pos == IF IsSome(content.index) THEN Unwrap(content.index) ELSE st.pos
  IN IF st.panic THEN st
     ELSE IF content.kind = "Command"
     THEN (IF found = None THEN st
           ELSE IF info.parameters = << >>
           THEN [st EXCEPT !.fragments[i].content = renamed]
           ELSE [st EXCEPT
                   !.fragments[i].content = [renamed EXCEPT !.index = Some(AddOne(pos))],
                   !.parameters = Put(@, pos, info),
                   !.pos = AddOne(pos),
                   !.panic = overflow_checks /\ Overflows(pos)])
     ELSE IF content.kind = "Choice"
     THEN (IF content.name = <<"P">>
           THEN (IF content.indexref = None /\ st.pos > 0
                 THEN [st EXCEPT !.fragments[i].content.indexref = Some(st.pos - 1)]
                 ELSE st)
           ELSE IF content.name = <<"G">>
           THEN (IF content.indexref = None
                 THEN [st EXCEPT !.fragments[i].content.indexref = Some(st.pos)]
                 ELSE st)
           ELSE [st EXCEPT !.panic = TRUE])
     ELSE st

\* normalize_string, one iteration of the first loop.
\* st is [fragments, parameters, pos, panic].
NormalizeStep(st, i, dialect) ==
  LET content == st.fragments[i].content
      found == FindCommand(content.name, dialect)
      info == Unwrap(found)
      renamed == IF IsSome(info.norm_name)
                 THEN [content EXCEPT !.name = Unwrap(info.norm_name)]
                 ELSE content
      pos == IF IsSome(content.index) THEN Unwrap(content.index) ELSE st.pos
  IN IF st.panic THEN st
     ELSE IF content.kind = "Command"
     THEN (IF found = None THEN st
           ELSE IF info.parameters = << >>
           THEN [st EXCEPT !.fragments[i].content = renamed]
           ELSE [st EXCEPT
                   !.fragments[i].content = [renamed EXCEPT !.index = Some(pos)],
                   !.parameters = Put(@, pos, info),
                   !.pos = AddOne(pos),
                   !.panic = overflow_checks /\ Overflows(pos)])
     ELSE IF content.kind = "Choice"
     THEN (IF content.name = <<"P">>
           THEN (IF content.indexref = None /\ st.pos > 0
                 THEN [st EXCEPT !.fragments[i].content.indexref = Some(st.pos - 1)]
                 ELSE st)
           ELSE IF content.name = <<"G">>
           THEN (IF content.indexref = None
                 THEN [st EXCEPT !.fragments[i].content.indexref = Some(st.pos)]
                 ELSE st)
           ELSE [st EXCEPT !.panic = TRUE])
     ELSE st

RECURSIVE NormalizeLoop(_, _, _)
NormalizeLoop(st, i, dialect) ==
  IF i > Len(st.fragments) THEN st
  ELSE NormalizeLoop(NormalizeStep(st, i, dialect), i + 1, dialect)

\* RemoveDefaultSubindex taking 0 for the default of every entry.
RemoveDefaultSubindex_ZeroOnly(fragments, parameters) ==
  [i \in 1..Len(fragments) |->
     LET content == fragments[i].content
     IN IF /\ content.kind = "Choice"
           /\ IsSome(content.indexref)
           /\ Unwrap(content.indexref) \in DOMAIN parameters
           /\ content.indexsubref = Some(0)
        THEN [fragments[i] EXCEPT !.content.indexsubref = None]
        ELSE fragments[i]]

\* normalize_string, the second loop: remove the subindex, if default.
RemoveDefaultSubindex(fragments, parameters) ==
  [i \in 1..Len(fragments) |->
     LET content == fragments[i].content
     IN IF /\ content.kind = "Choice"
           /\ IsSome(content.indexref)
           /\ Unwrap(content.indexref) \in DOMAIN parameters
           /\ content.indexsubref =
                OptOr(parameters[Unwrap(content.indexref)].def_plural_subindex, Some(0))
        THEN [fragments[i] EXCEPT !.content.indexsubref = None]
        ELSE fragments[i]]

\* normalize_string: [panic, fragments]
normalize_string(dialect, fragments) ==
  LET of_loop(st) ==
        IF st.panic THEN [panic |-> TRUE, fragments |-> fragments]
        ELSE [panic |-> FALSE,
              fragments |-> RemoveDefaultSubindex(st.fragments, st.parameters)]
  IN of_loop(NormalizeLoop([fragments |-> fragments, parameters |-> EmptyMap,
                            pos |-> 0, panic |-> FALSE], 1, dialect))

\* ParseErrorOf reporting the failure of the parser as a Warning.
ParseErrorOf_AsWarning(err) ==
  ValidationError("Warning", Some(err.position),
                  IF err.text[Len(err.text)] = "}"
                  THEN Some(err.position + str_len(err.text)) ELSE None,
                  err.message, None)

\* The ValidationError validate_base and validate_translation make of the Err
\* of ParsedString::parse.  (The parser of src/ returns the message alone;
\* the span is the one the specification gives: from the position of the
\* directive, to its end for an invalid directive and open for an
\* unterminated one.)
ParseErrorOf(err) ==
  ValidationError("Error", Some(err.position),
                  IF err.text[Len(err.text)] = "}"
                  THEN Some(err.position + str_len(err.text)) ELSE None,
                  err.message, None)

\* errs.iter().any(|e| e.severity == Severity::Error)
AnyError(errs) == \E i \in 1..Len(errs) : errs[i].severity = "Error"

Panic == [panic |-> TRUE, errors |-> << >>, normalized |-> None]

ValidationResult(errors, normalized) ==
  [panic |-> FALSE, errors |-> errors, normalized |-> normalized]

\* Finish with any diagnostic, a Warning too, suppressing the normalized text.
Finish_AnyDiagnosticSuppresses(cfg, fragments, errs) ==
  LET of_normalized(norm) ==
        IF errs # << >> THEN ValidationResult(errs, None)
        ELSE IF norm.panic THEN Panic
        ELSE ValidationResult(errs, Some(ParsedString_compile(norm.fragments)))
  IN of_normalized(normalize_string(cfg.dialect, sanitize_whitespace(fragments)))

\* The tail of validate_base and of validate_translation: the result for the
\* diagnostics errs of the parsed string fragments.
Finish(cfg, fragments, errs) ==
  LET of_normalized(norm) ==
        IF AnyError(errs) THEN ValidationResult(errs, None)
        ELSE IF norm.panic THEN Panic
        ELSE ValidationResult(errs, Some(ParsedString_compile(norm.fragments)))
  IN of_normalized(normalize_string(cfg.dialect, sanitize_whitespace(fragments)))

\* validate_base(config, base); order as in validate_string.
validate_base(cfg, string, order) ==
  LET of_validated(fragments, v) ==
        IF v.panic THEN Panic ELSE Finish(cfg, fragments, v.errors)
      of_fragments(fragments) ==
        of_validated(fragments, validate_string(cfg, fragments, None, order))
      of_parsed(p) ==
        IF ~p.ok THEN ValidationResult(<< ParseErrorOf(p) >>, None)
        ELSE of_fragments(Spanned(p.fragments, str_len(string)))
  IN of_parsed(ParsedString_parse(string))

\* validate_translation parsing the translation before it looks at the case.
validate_translation_ParseFirst(cfg, base_string, case_name, translation_string, order) ==
  LET of_validated(fragments, v) ==
        IF v.panic THEN Panic ELSE Finish(cfg, fragments, v.errors)
      of_fragments(base_fragments, fragments) ==
        of_validated(fragments,
                     validate_string(cfg, fragments, Some(base_fragments), order))
      of_parsed(b, t) ==
        IF ~b.ok THEN ValidationResult(<< BaseInvalid >>, None)
        ELSE IF ~t.ok THEN ValidationResult(<< ParseErrorOf(t) >>, None)
        ELSE IF case_name # <<"d", "e", "f", "a", "u", "l", "t">> /\ ~allow_cases(cfg)
        THEN ValidationResult(
               << ValidationError("Error", None, None, <<"No cases allowed.">>, None) >>,
               None)
        ELSE IF case_name # <<"d", "e", "f", "a", "u", "l", "t">>
                /\ ~Contains(cfg.cases, case_name)
        THEN ValidationResult(
               << ValidationError("Error", None, None, <<"Unknown case '{}'.", case_name>>,
                    KnownList("Known cases are: '{}'", cfg.cases)) >>,
               None)
        ELSE of_fragments(Spanned(b.fragments, str_len(base_string)),
                          Spanned(t.fragments, str_len(translation_string)))
  IN of_parsed(ParsedString_parse(base_string), ParsedString_parse(translation_string))

\* validate_translation(config, base, case, translation); order as in
\* validate_string.
validate_translation(cfg, base_string, case_name, translation_string, order) ==
  LET of_validated(fragments, v) ==
        IF v.panic THEN Panic ELSE Finish(cfg, fragments, v.errors)
      of_fragments(base_fragments, fragments) ==
        of_validated(fragments,
                     validate_string(cfg, fragments, Some(base_fragments), order))
      of_translation(b, t) ==
        IF ~t.ok THEN ValidationResult(<< ParseErrorOf(t) >>, None)
        ELSE of_fragments(Spanned(b.fragments, str_len(base_string)),
                          Spanned(t.fragments, str_len(translation_string)))
      of_base(b) ==
        IF ~b.ok THEN ValidationResult(<< BaseInvalid >>, None)
        ELSE IF case_name # <<"d", "e", "f", "a", "u", "l", "t">> /\ ~allow_cases(cfg)
        THEN ValidationResult(
               << ValidationError("Error", None, None, <<"No cases allowed.">>, None) >>,
               None)
        ELSE IF case_name # <<"d", "e", "f", "a", "u", "l", "t">>
                /\ ~Contains(cfg.cases, case_name)
        THEN ValidationResult(
               << ValidationError("Error", None, None, <<"Unknown case '{}'.", case_name>>,
                    KnownList("Known cases are: '{}'", cfg.cases)) >>,
               None)
        ELSE of_translation(b, ParsedString_parse(translation_string))
  IN of_base(ParsedString_parse(base_string))

\* The iteration orders of signature.parameters a call of validate_base or of
\* validate_translation may meet.
BaseOrders(cfg, string) ==
  LET of_parsed(p) ==
        IF p.ok THEN HashOrders(cfg, Spanned(p.fragments, str_len(string)), None)
        ELSE {<< >>}
  IN of_parsed(ParsedString_parse(string))

TranslationOrders(cfg, base_string) ==
  LET of_fragments(base_fragments) ==
        HashOrders(cfg, base_fragments, Some(base_fragments))
      of_parsed(b) ==
        IF b.ok THEN of_fragments(Spanned(b.fragments, str_len(base_string)))
        ELSE {<< >>}
  IN of_parsed(ParsedString_parse(base_string))

\* ------------------------------------------------------------- the inputs

RECURSIVE Flatten(_)
Flatten(pieces) ==
  IF pieces = << >> THEN << >> ELSE Head(pieces) \o Flatten(Tail(pieces))

\* The strings made of at most n of the given pieces.
Texts(pieces, n) ==
  { Flatten(ps) : ps \in UNION { [1..k -> pieces] : k \in 0..n } }

\* "{<usize::MAX>:NUM}"
MaxIndexCommand == <<"{">> \o fmt_usize(UsizeMax) \o <<":", "N", "U", "M", "}">>

\* "{<usize::MAX + 1>:NUM}"
OverIndexCommand == <<"{">> \o fmt_usize(UsizeMax + 1) \o <<":", "N", "U", "M", "}">>

RawString == <<"{", "R", "A", "W", "_", "S", "T", "R", "I", "N", "G", "}">>

DefaultCase == <<"d", "e", "f", "a", "u", "l", "t">>

Configs ==
  { [dialect |-> "openttd", cases |-> << <<"x">> >>,
     genders |-> << <<"a">>, <<"b">> >>, plural_count |-> 2],
    [dialect |-> "game-script", cases |-> << <<"x">> >>,
     genders |-> << <<"a">>, <<"b">> >>, plural_count |-> 2],
    [dialect |-> "newgrf", cases |-> << >>, genders |-> << >>, plural_count |-> 1] }

Cases == { DefaultCase, <<"x">>, <<"z">> }

BasePieces ==
  { <<"{", "N", "U", "M", "}">>,
    <<"{", "R", "E", "D", "}">>,
    <<"{", "F", "O", "O", "}">>,
    RawString,
    MaxIndexCommand,
    <<EACUTE>>,
    <<"{">> }

TransPieces ==
  { <<"{", "N", "U", "M", "}">>,
    <<"{", "R", "E", "D", "}">>,
    <<"{", "F", "O", "O", "}">>,
    <<"{", "P", " ", "a", " ", "b", "}">>,
    <<"{", "G", "=", "a", "}">>,
    MaxIndexCommand,
    <<EACUTE>>,
    <<"{">> }

Bases == Texts(BasePieces, MaxBasePieces)

Translations == Texts(TransPieces, MaxTransPieces)

\* -------------------------------------------- the validation entry points

\* A process that has panicked makes no further call.
Running == \A i \in 1..Len(calls) : ~calls[i].result.panic

Init ==
  /\ overflow_checks \in BOOLEAN
  /\ config \in Configs
  /\ base \in Bases
  /\ case \in Cases
  /\ translation \in Translations
  /\ parsed = None
  /\ history = << >>
  /\ compiled = None
  /\ calls = << >>
  /\ scan = None

\* A call of validate_base(config, base).
ValidateBase ==
  /\ Len(calls) < MaxCalls
  /\ Running
  /\ \E order \in BaseOrders(config, base) :
       calls' = Append(calls,
                  [fn |-> "validate_base",
                   args |-> <<config, base>>,
                   result |-> validate_base(config, base, order)])
  /\ UNCHANGED <<scan, overflow_checks, config, base, case, translation,
                 parsed, history, compiled>>

\* A call of validate_translation(config, base, case, translation).
ValidateTranslation ==
  /\ Len(calls) < MaxCalls
  /\ Running
  /\ \E order \in TranslationOrders(config, base) :
       calls' = Append(calls,
                  [fn |-> "validate_translation",
                   args |-> <<config, base, case, translation>>,
                   result |-> validate_translation(config, base, case,
                                                   translation, order)])
  /\ UNCHANGED <<scan, overflow_checks, config, base, case, translation,
                 parsed, history, compiled>>

Next == ValidateBase \/ ValidateTranslation

Spec == Init /\ [][Next]_vars

\* ------------------------------------- validating the normalized text again

AgainBasePieces ==
  { <<"{", "N", "U", "M", "}">>,
    <<"{", "0", "0", ":", "N", "U", "M", "}">>,
    <<"{", "P", " ", QUOTE, "a", NBSPCHAR, QUOTE, " ", "b", "}">> }

AgainPieces ==
  { <<"{", "N", "U", "M", "}">>,
    <<"{", "0", "0", ":", "N", "U", "M", "}">>,
    <<"{", "P", " ", "a", " ", "b", "}">>,
    <<"{", "P", " ", QUOTE, "a", NBSPCHAR, QUOTE, " ", "b", "}">>,
    <<"{", "P", " ", QUOTE, "1", QUOTE, " ", "b", "}">>,
    <<"{", "P", " ", "a", NUL, " ", "b", "}">>,
    <<"{", "P", " ", QUOTE, TAB, QUOTE, " ", "b", "}">>,
    <<"a", TAB>> }

InitAgain ==
  /\ overflow_checks \in BOOLEAN
  /\ config \in Configs
  /\ base \in Texts(AgainBasePieces, MaxAgainBasePieces)
  /\ case = DefaultCase
  /\ translation \in Texts(AgainPieces, MaxAgainPieces)
  /\ parsed = None
  /\ history = << >>
  /\ compiled = None
  /\ calls = << >>
  /\ scan = None

\* The caller takes the normalized text the last call returned for the
\* string of its next call: the base after validate_base, the translation
\* after validate_translation.
Resubmit ==
  /\ calls # << >>
  /\ Len(calls) < MaxCalls
  /\ IsSome(calls[Len(calls)].result.normalized)
  /\ IF calls[Len(calls)].fn = "validate_base"
     THEN /\ base' = Unwrap(calls[Len(calls)].result.normalized)
          /\ base' # base
          /\ UNCHANGED translation
     ELSE /\ translation' = Unwrap(calls[Len(calls)].result.normalized)
          /\ translation' # translation
          /\ UNCHANGED base
  /\ UNCHANGED <<scan, overflow_checks, config, case, parsed, history, compiled, calls>>

NextAgain == ValidateBase \/ ValidateTranslation \/ Resubmit

SpecAgain == InitAgain /\ [][NextAgain]_vars

\* ---------------------------------------------------- the parser pipeline

ParserPieces ==
  { <<"a">>,
    <<" ">>,
    <<EACUTE>>,
    <<"{", "N", "U", "M", "}">>,
    <<"{", "1", ":", "N", "U", "M", "}">>,
    <<"{", "0", "1", ":", "N", "U", "M", "}">>,
    <<"{", ARABIC3, ":", "N", "U", "M", "}">>,
    MaxIndexCommand,
    OverIndexCommand,
    <<"{", "S", "T", "R", "I", "N", "G", ".", "x", "}">>,
    <<"{", "S", "T", "R", "I", "N", "G", "3", "}">>,
    <<"{", "}">>,
    <<"{", "{", "}">>,
    <<"{", "G", "=", "n", "}">>,
    <<"{", "G", " ", "=", " ", "n", "}">>,
    <<"{", "P", " ", "a", " ", "b", "}">>,
    <<"{", "P", " ", " ", "a", " ", "b", " ", "}">>,
    <<"{", "P", " ", QUOTE, "1", QUOTE, " ", "b", "}">>,
    <<"{", "P", " ", QUOTE, QUOTE, " ", QUOTE, "a", " ", "b", QUOTE, "}">>,
    <<"{", "P", " ", "1", ":", "0", " ", "a", " ", "b", "}">>,
    <<"{", "P", " ", "0", ":", "1", " ", "a", " ", "b", "}">>,
    <<"{", "G", " ", "0", " ", "a", " ", "b", "}">>,
    <<"{", "1", "}">>,
    <<"{">> }

ParserInputs == Texts(ParserPieces, MaxPieces)

InitParser ==
  /\ overflow_checks \in BOOLEAN
  /\ config \in Configs
  /\ base \in ParserInputs
  /\ case = DefaultCase
  /\ translation = << >>
  /\ parsed = None
  /\ history = << >>
  /\ compiled = None
  /\ calls = << >>
  /\ scan = None

\* The pipeline holds a ParsedString, and has not panicked.
Holding ==
  /\ IsSome(parsed)
  /\ Unwrap(parsed).ok
  /\ history[Len(history)].op # "panic"
  /\ Len(history) < MaxOps

\* ParsedString::parse(base)
Parse ==
  /\ parsed = None
  /\ LET r == ParsedString_parse(base)
     IN /\ parsed' = Some(r)
        /\ history' = << [op |-> "parse",
                          fragments |-> IF r.ok THEN r.fragments ELSE << >>] >>
  /\ UNCHANGED <<scan, overflow_checks, config, base, case, translation, compiled, calls>>

\* sanitize_whitespace(&mut parsed)
Sanitize ==
  /\ Holding
  /\ parsed' = Some([Unwrap(parsed) EXCEPT !.fragments = sanitize_whitespace(@)])
  /\ history' = Append(history, [op |-> "sanitize", fragments |-> parsed'[1].fragments])
  /\ UNCHANGED <<scan, overflow_checks, config, base, case, translation, compiled, calls>>

\* normalize_string(&config.get_dialect(), &mut parsed)
Normalize ==
  /\ Holding
  /\ LET norm == normalize_string(config.dialect, Unwrap(parsed).fragments)
     IN /\ parsed' = Some([Unwrap(parsed) EXCEPT !.fragments = norm.fragments])
        /\ history' = Append(history,
                        [op |-> IF norm.panic THEN "panic" ELSE "normalize",
                         fragments |-> norm.fragments])
  /\ UNCHANGED <<scan, overflow_checks, config, base, case, translation, compiled, calls>>

\* parsed.compile()
Compile ==
  /\ Holding
  /\ compiled' = Some(ParsedString_compile(Unwrap(parsed).fragments))
  /\ history' = Append(history, [op |-> "compile", fragments |-> Unwrap(parsed).fragments])
  /\ UNCHANGED <<scan, overflow_checks, config, base, case, translation, parsed, calls>>

NextParser == Parse \/ Sanitize \/ Normalize \/ Compile

SpecParser == InitParser /\ [][NextParser]_vars

\* ----------------- sanitize_whitespace and normalize_string on ParsedStrings
\* The two functions take a ParsedString; here it is given as a value of the
\* struct, as the tests of validate.rs have it.

Command(index, name, suffix) ==
  [kind |-> "Command", index |-> index, name |-> name, case |-> suffix]

Choice(name, indexref, indexsubref, choices) ==
  [kind |-> "Choice", name |-> name, indexref |-> indexref,
   indexsubref |-> indexsubref, choices |-> choices]

CargoLong == <<"C", "A", "R", "G", "O", "_", "L", "O", "N", "G">>

\* The sequences of at most n elements of set.
Seqs(set, n) == UNION { [1..k -> set] : k \in 0..n }

\* The fragments with these contents, each at the offset its text has.
RECURSIVE Positioned(_, _)
Positioned(contents, position) ==
  IF contents = << >> THEN << >>
  ELSE <<[position |-> position, content |-> Head(contents)]>>
       \o Positioned(Tail(contents),
                     position + str_len(FragmentContent_compile(Head(contents))))

Text(text) == [kind |-> "Text", text |-> text]

AB == << <<"a">>, <<"b">> >>

EditContents ==
  { Text(<<" ", "a", " ", "b", " ", " ">>),
    Text(<<NUL, EACUTE, DEL, "a", TAB, LF>>),
    Text(<<"a", NBSPCHAR>>),
    Command(None, << >>, None),
    Command(None, <<"{">>, None),
    Command(None, <<"R", "E", "D">>, None),
    Command(None, <<"F", "O", "O">>, None),
    Command(None, <<"N", "U", "M">>, None),
    Command(Some(1), <<"N", "U", "M">>, None),
    Command(Some(UsizeMax), <<"N", "U", "M">>, None),
    Command(Some(0), <<"S", "T", "R", "I", "N", "G", "3">>, Some(<<"x">>)),
    Command(None, <<"S", "T", "R", "I", "N", "G">>, None),
    Command(None, CargoLong, None),
    [kind |-> "Gender", gender |-> <<"a">>],
    Choice(<<"P">>, None, None, << <<"a", TAB>>, <<CR, EACUTE, " ">> >>),
    Choice(<<"P">>, None, None, AB),
    Choice(<<"G">>, None, None, AB),
    Choice(<<"P">>, Some(0), None, AB),
    Choice(<<"G">>, Some(0), None, AB),
    Choice(<<"P">>, Some(0), Some(0), AB),
    Choice(<<"G">>, Some(0), Some(0), AB),
    Choice(<<"P">>, Some(0), Some(1), AB),
    Choice(<<"G">>, Some(0), Some(1), AB),
    Choice(<<"P">>, Some(1), Some(1), AB),
    Choice(<<"P">>, Some(1), Some(2), AB) }

\* "{RED}{NBSP}{2:RAW_STRING}{0:STRING5}{COMMA}" of test_normalize_cmd
NormalizeCmdExample ==
  << Command(None, <<"R", "E", "D">>, None),
     Command(None, <<"N", "B", "S", "P">>, None),
     Command(Some(2), <<"R", "A", "W", "_", "S", "T", "R", "I", "N", "G">>, None),
     Command(Some(0), <<"S", "T", "R", "I", "N", "G", "5">>, None),
     Command(None, <<"C", "O", "M", "M", "A">>, None) >>

\* "{NUM}{P 0:0 a b}{G 1:0 a b}{G 1:1 a b}{STRING}{P 1:2 a b}{CARGO_LONG}
\* {P 2:1 a b}" of test_normalize_subref
NormalizeSubrefExample ==
  << Command(None, <<"N", "U", "M">>, None),
     Choice(<<"P">>, Some(0), Some(0), AB),
     Choice(<<"G">>, Some(1), Some(0), AB),
     Choice(<<"G">>, Some(1), Some(1), AB),
     Command(None, <<"S", "T", "R", "I", "N", "G">>, None),
     Choice(<<"P">>, Some(1), Some(2), AB),
     Command(None, CargoLong, None),
     Choice(<<"P">>, Some(2), Some(1), AB) >>

\* "{CARGO_LONG}{0:NUM}{P 0:1 a b}{P 0:0 a b}": two commands at position 0
TwiceAtPosition ==
  << Command(None, CargoLong, None),
     Command(Some(0), <<"N", "U", "M">>, None),
     Choice(<<"P">>, Some(0), Some(1), AB),
     Choice(<<"P">>, Some(0), Some(0), AB) >>

EditInputs ==
  Seqs(EditContents, MaxEditFragments)
    \cup {NormalizeCmdExample, NormalizeSubrefExample, TwiceAtPosition}

InitEdit ==
  /\ overflow_checks \in BOOLEAN
  /\ config \in Configs
  /\ case = DefaultCase
  /\ translation = << >>
  /\ compiled = None
  /\ calls = << >>
  /\ scan = None
  /\ \E contents \in EditInputs :
       /\ parsed = Some([ok |-> TRUE, fragments |-> Positioned(contents, 0)])
       /\ history = << [op |-> "given", fragments |-> Positioned(contents, 0)] >>
       /\ base = ParsedString_compile(Positioned(contents, 0))

NextEdit == Sanitize \/ Normalize \/ Compile

SpecEdit == InitEdit /\ [][NextEdit]_vars

\* ------------------------------------------- validate_string step by step

ScanBasePieces ==
  { <<"{", "N", "U", "M", "}">>,
    <<"{", "0", ":", "N", "U", "M", "}">>,
    <<"{", "S", "T", "R", "I", "N", "G", "}">>,
    <<"{", "R", "E", "D", "}">>,
    <<"{", "T", "R", "A", "I", "N", "}">>,
    <<"{", "N", "B", "S", "P", "}">>,
    MaxIndexCommand }

ScanPieces ==
  { <<"a">>,
    <<"{", "N", "U", "M", "}">>,
    <<"{", "0", ":", "N", "U", "M", "}">>,
    <<"{", "1", ":", "N", "U", "M", "}">>,
    <<"{", "N", "U", "M", ".", "x", "}">>,
    <<"{", "S", "T", "R", "I", "N", "G", ".", "x", "}">>,
    <<"{", "S", "T", "R", "I", "N", "G", ".", "z", "}">>,
    <<"{", "R", "E", "D", "}">>,
    <<"{", "R", "E", "D", ".", "x", "}">>,
    <<"{", "T", "R", "A", "I", "N", "}">>,
    <<"{", "N", "B", "S", "P", "}">>,
    <<"{", "F", "O", "O", "}">>,
    <<"{", "G", "=", "a", "}">>,
    <<"{", "G", "=", "z", "}">>,
    <<"{", "P", " ", "a", " ", "b", "}">>,
    <<"{", "G", " ", "a", " ", "b", "}">>,
    <<"{", "P", " ", "1", " ", "a", " ", "b", "}">>,
    <<"{", "P", " ">> \o fmt_usize(UsizeMax) \o <<" ", "a", " ", "b", "}">>,
    MaxIndexCommand }

ScanBases == Texts(ScanBasePieces, MaxScanBasePieces)

ScanTranslations == Texts(ScanPieces, MaxScanPieces)

\* get_signature, the state before the loop
BuilderStart ==
  [errors |-> << >>, parameters |-> EmptyMap, nonpositional_count |-> EmptyMap,
   pos |-> 0, panic |-> FALSE]

\* validate_string, the state before the loop
ScannerStart ==
  [errors |-> << >>, positional_count |-> EmptyMap, nonpositional_count |-> EmptyMap,
   pos |-> 0, front |-> 0, panic |-> FALSE]

Idle ==
  [stage |-> "idle", test |-> << >>, base |-> None, i |-> 0,
   builder |-> BuilderStart, st |-> ScannerStart, errors |-> << >>]

InitScan ==
  /\ overflow_checks \in BOOLEAN
  /\ config \in Configs
  /\ base \in ScanBases
  /\ case = DefaultCase
  /\ translation \in ScanTranslations
  /\ parsed = None
  /\ history = << >>
  /\ compiled = None
  /\ calls = << >>
  /\ scan = Idle

\* validate_string(config, test, base) is entered with the parsed translation
\* as test, and with the parsed base or with None as base.
Enter ==
  /\ scan.stage = "idle"
  /\ LET entered(t, b) ==
           /\ t.ok
           /\ b.ok
           /\ \E with_base \in BOOLEAN :
                scan' = [Idle EXCEPT
                           !.stage = "signature",
                           !.test = Spanned(t.fragments, str_len(translation)),
                           !.base = IF with_base
                                    THEN Some(Spanned(b.fragments, str_len(base)))
                                    ELSE None,
                           !.i = 1]
     IN entered(ParsedString_parse(translation), ParsedString_parse(base))
  /\ UNCHANGED <<overflow_checks, config, base, case, translation, parsed, history,
                 compiled, calls>>

\* base.unwrap_or(test)
SignatureFragments == IF IsSome(scan.base) THEN Unwrap(scan.base) ELSE scan.test

\* One iteration of the loop of get_signature.
Build ==
  /\ scan.stage = "signature"
  /\ scan.i <= Len(SignatureFragments)
  /\ LET built(st) ==
           scan' = [scan EXCEPT !.builder = st,
                                !.i = @ + 1,
                                !.stage = IF st.panic THEN "panic" ELSE @]
     IN built(GetSignatureStep(scan.builder, SignatureFragments[scan.i], config.dialect))
  /\ UNCHANGED <<overflow_checks, config, base, case, translation, parsed, history,
                 compiled, calls>>

\* The end of get_signature and the match of validate_string on its result.
Built ==
  /\ scan.stage = "signature"
  /\ scan.i > Len(SignatureFragments)
  /\ scan' = IF scan.builder.errors = << >>
             THEN [scan EXCEPT !.stage = "scan", !.i = 1]
             ELSE [scan EXCEPT
                     !.stage = "done",
                     !.errors = IF IsSome(scan.base) THEN << BaseInvalid >>
                                ELSE scan.builder.errors]
  /\ UNCHANGED <<overflow_checks, config, base, case, translation, parsed, history,
                 compiled, calls>>

\* The StringSignature get_signature returned.
Signature ==
  [parameters |-> scan.builder.parameters,
   nonpositional_count |-> scan.builder.nonpositional_count]

\* One iteration of the loop of validate_string over test.fragments.
Scan ==
  /\ scan.stage = "scan"
  /\ scan.i <= Len(scan.test)
  /\ LET scanned(st) ==
           scan' = [scan EXCEPT !.st = st,
                                !.i = @ + 1,
                                !.stage = IF st.panic THEN "panic" ELSE @]
     IN scanned(ValidateStep(scan.st, scan.test[scan.i], Signature, config))
  /\ UNCHANGED <<overflow_checks, config, base, case, translation, parsed, history,
                 compiled, calls>>

\* The three passes of validate_string after the loop, and its return.
Complete ==
  /\ scan.stage = "scan"
  /\ scan.i > Len(scan.test)
  /\ \E order \in Orders(DOMAIN Signature.parameters) :
       scan' = [scan EXCEPT
                  !.stage = "done",
                  !.errors =
                    scan.st.errors
                    \o PositionalPass(order, Signature, scan.st.positional_count)
                    \o NonpositionalPass(
                         SortedNames(DOMAIN Signature.nonpositional_count),
                         Signature, scan.st.nonpositional_count)
                    \o UnexpectedPass(SortedNames(DOMAIN scan.st.nonpositional_count),
                                      Signature, scan.st.nonpositional_count)]
  /\ UNCHANGED <<overflow_checks, config, base, case, translation, parsed, history,
                 compiled, calls>>

NextScan == Enter \/ Build \/ Built \/ Scan \/ Complete

SpecScan == InitScan /\ [][NextScan]_vars

\* The steps compose to validate_string: what a finished scan returned is
\* what validate_string returns for one of the iteration orders, and a scan
\* panics only if validate_string does.
ScanIsValidateString ==
  /\ scan.stage = "done" =>
       \E order \in HashOrders(config, scan.test, scan.base) :
         validate_string(config, scan.test, scan.base, order) =
           [panic |-> FALSE, errors |-> scan.errors]
  /\ scan.stage = "panic" =>
       validate_string(config, scan.test, scan.base, << >>).panic

\* ------------------------------- validate_string on given ParsedStrings
\* validate_string takes ParsedStrings; here they are given as values of the
\* struct, as the tests of validate.rs have them.

\* The fragments with these contents, each at the offset its text has.
RECURSIVE Placed(_, _)
Placed(contents, position) ==
  IF contents = << >> THEN << >>
  ELSE <<[pos_begin |-> position,
          pos_end |-> position + str_len(FragmentContent_compile(Head(contents))),
          content |-> Head(contents)]>>
       \o Placed(Tail(contents),
                 position + str_len(FragmentContent_compile(Head(contents))))

GivenBaseContents ==
  { Command(None, <<"N", "U", "M">>, None),
    Command(None, <<"S", "T", "R", "I", "N", "G", "3">>, None),
    Command(None, CargoLong, None),
    Command(None, <<"R", "E", "D">>, None) }

GivenContents ==
  { Command(None, <<"N", "U", "M">>, None),
    Command(None, <<"S", "T", "R", "I", "N", "G">>, None),
    Command(None, CargoLong, None),
    [kind |-> "Text", text |-> <<"a">>],
    Choice(<<"P">>, None, None, << <<"a">>, <<"b">> >>),
    Choice(<<"G">>, None, None, << <<"a">>, <<"b">> >>),
    Choice(<<"P">>, None, None, << <<"a">> >>),
    Choice(<<"G">>, None, None, << <<"a">> >>),
    Choice(<<"P">>, Some(0), None, << <<"a">>, <<"b">> >>),
    Choice(<<"G">>, Some(0), None, << <<"a">>, <<"b">> >>),
    Choice(<<"P">>, Some(0), Some(0), << <<"a">>, <<"b">> >>),
    Choice(<<"P">>, Some(0), Some(1), << <<"a">>, <<"b">> >>),
    Choice(<<"G">>, Some(0), Some(1), << <<"a">>, <<"b">> >>),
    Choice(<<"P">>, Some(0), Some(4), << <<"a">>, <<"b">> >>),
    Choice(<<"G">>, Some(1), None, << <<"a">> >>) }

InitGiven ==
  /\ overflow_checks \in BOOLEAN
  /\ config \in Configs
  /\ case = DefaultCase
  /\ parsed = None
  /\ history = << >>
  /\ compiled = None
  /\ calls = << >>
  /\ \E t \in Seqs(GivenContents, MaxGivenFragments) :
     \E b \in {None} \cup {Some(x) : x \in Seqs(GivenBaseContents, MaxGivenBaseFragments)} :
       /\ scan = [Idle EXCEPT
                    !.stage = "given",
                    !.test = Placed(t, 0),
                    !.base = IF IsSome(b) THEN Some(Placed(Unwrap(b), 0)) ELSE None]
       /\ translation = ParsedString_compile(Placed(t, 0))
       /\ base = IF IsSome(b) THEN ParsedString_compile(Placed(Unwrap(b), 0)) ELSE << >>

\* validate_string(config, test, base) is entered with the given
\* ParsedStrings.
Given ==
  /\ scan.stage = "given"
  /\ scan' = [scan EXCEPT !.stage = "signature", !.i = 1]
  /\ UNCHANGED <<overflow_checks, config, base, case, translation, parsed, history,
                 compiled, calls>>

NextGiven == Given \/ Build \/ Built \/ Scan \/ Complete

SpecGiven == InitGiven /\ [][NextGiven]_vars

\* ------------------------------------- the claims about the entry points

\* The calls of the entry point fn that returned.
Returned(fn) ==
  { i \in 1..Len(calls) : calls[i].fn = fn /\ ~calls[i].result.panic }

HasError(errs) == \E e \in 1..Len(errs) : errs[e].severity = "Error"

\* C1: the result of validate_base and of validate_translation has
\* `normalized` present if and only if `errors` holds no entry of severity
\* Error; Warnings alone do not suppress the normalized text.
C1_NormalizedIffNoError ==
  \A i \in Returned("validate_base") \cup Returned("validate_translation") :
    IsSome(calls[i].result.normalized) <=> ~HasError(calls[i].result.errors)

\* A call that returned Warnings only, with the normalized text.
C1_Witness ==
  \E i \in Returned("validate_translation") :
    /\ calls[i].result.errors # << >>
    /\ \A e \in 1..Len(calls[i].result.errors) :
         calls[i].result.errors[e].severity = "Warning"
    /\ IsSome(calls[i].result.normalized)

\* The base parses and get_signature returns Err for it.
SignatureFails(cfg, string) ==
  LET p == ParsedString_parse(string)
  IN /\ p.ok
     /\ ~get_signature(cfg.dialect, Spanned(p.fragments, str_len(string))).ok

\* validate_translation goes on to parse the translation for this case.
CaseAccepted(cfg, case_name) ==
  \/ case_name = DefaultCase
  \/ cfg.dialect # "game-script" /\ Contains(cfg.cases, case_name)

\* C2: a translation validated against a base whose signature cannot be
\* built, or against a base that does not parse, gets exactly one
\* diagnostic: Error, no span, "Base language text is invalid.", with the
\* suggestion "This is a bug; wait until it is fixed."; nothing of the
\* builder's errors and nothing about the translation is added.
C2_BaseInvalidAlone ==
  \A i \in Returned("validate_translation") :
    LET cfg == calls[i].args[1]
        b == calls[i].args[2]
        c == calls[i].args[3]
        t == calls[i].args[4]
    IN (\/ ~ParsedString_parse(b).ok
        \/ /\ SignatureFails(cfg, b)
           /\ CaseAccepted(cfg, c)
           /\ ParsedString_parse(t).ok)
       => /\ calls[i].result.errors =
               << [severity |-> "Error", pos_begin |-> None, pos_end |-> None,
                   message |-> <<"Base language text is invalid.">>,
                   suggestion |-> Some(<<"This is a bug; wait until it is fixed.">>)] >>
          /\ calls[i].result.normalized = None

\* A translation with an unknown command of its own, validated against a
\* base with an unknown command, got the one diagnostic.
C2_Witness ==
  \E i \in Returned("validate_translation") :
    /\ SignatureFails(calls[i].args[1], calls[i].args[2])
    /\ ParsedString_parse(calls[i].args[4]).ok
    /\ SignatureFails(calls[i].args[1], calls[i].args[4])
    /\ Len(calls[i].result.errors) = 1
    /\ calls[i].result.errors[1].message = <<"Base language text is invalid.">>

\* The Errors the claim C3 lists for the fragments: one for every Command
\* whose name FindCommand does not know for the dialect, in fragment order.
RECURSIVE UnknownCommandErrors(_, _)
UnknownCommandErrors(fragments, dialect) ==
  IF fragments = << >> THEN << >>
  ELSE LET f == Head(fragments)
       IN (IF f.content.kind = "Command" /\ FindCommand(f.content.name, dialect) = None
           THEN << [severity |-> "Error", pos_begin |-> Some(f.pos_begin),
                    pos_end |-> Some(f.pos_end),
                    message |-> <<"Unknown string command '{{{}}}'.", f.content.name>>,
                    suggestion |-> None] >>
           ELSE << >>)
          \o UnknownCommandErrors(Tail(fragments), dialect)

\* C3: validate_base gives one Error "Unknown string command '{NAME}'." for
\* every Command the registry does not know for the dialect, each with the
\* span of its fragment, all of them in fragment order as the whole list of
\* diagnostics; "{RAW_STRING}" gives the one Error with span [0,12) under
\* NewGRF and is a parameter (no Error, a normalized text) under OpenTTD.
C3_UnknownCommandsCollected ==
  \A i \in Returned("validate_base") :
    LET cfg == calls[i].args[1]
        b == calls[i].args[2]
        p == ParsedString_parse(b)
        unknown == UnknownCommandErrors(Spanned(p.fragments, str_len(b)), cfg.dialect)
    IN /\ (p.ok /\ unknown # << >>) => calls[i].result.errors = unknown
       /\ (b = RawString /\ cfg.dialect = "newgrf")
            => calls[i].result.errors =
                 << [severity |-> "Error", pos_begin |-> Some(0), pos_end |-> Some(12),
                     message |-> <<"Unknown string command '{{{}}}'.",
                                   <<"R", "A", "W", "_", "S", "T", "R", "I", "N", "G">> >>,
                     suggestion |-> None] >>
       /\ (b = RawString /\ cfg.dialect = "openttd")
            => /\ ~HasError(calls[i].result.errors)
               /\ IsSome(calls[i].result.normalized)

\* C3 without its example of "{RAW_STRING}": the Errors of the unknown
\* commands of a base that parses.
C3_CollectedWhereParsed ==
  \A i \in Returned("validate_base") :
    LET cfg == calls[i].args[1]
        b == calls[i].args[2]
        p == ParsedString_parse(b)
        unknown == UnknownCommandErrors(Spanned(p.fragments, str_len(b)), cfg.dialect)
    IN (p.ok /\ unknown # << >>) => calls[i].result.errors = unknown

\* C4: validate_translation with a case other than "default" and a base that
\* parses returns exactly one Error without span and no normalized text: "No
\* cases allowed." for game-script, otherwise "Unknown case '<case>'." when
\* the case is not in config.cases, whether or not the translation parses;
\* with case "default" it reports neither.
C4_CaseChecked ==
  \A i \in Returned("validate_translation") :
    LET cfg == calls[i].args[1]
        c == calls[i].args[3]
        errs == calls[i].result.errors
        OnlyError(message) ==
          /\ Len(errs) = 1
          /\ errs[1].severity = "Error"
          /\ errs[1].pos_begin = None
          /\ errs[1].pos_end = None
          /\ errs[1].message = message
          /\ calls[i].result.normalized = None
    IN ParsedString_parse(calls[i].args[2]).ok =>
         /\ (c # DefaultCase /\ cfg.dialect = "game-script")
              => OnlyError(<<"No cases allowed.">>)
         /\ (c # DefaultCase /\ cfg.dialect # "game-script" /\ ~Contains(cfg.cases, c))
              => OnlyError(<<"Unknown case '{}'.", c>>)
         /\ c = DefaultCase
              => \A e \in 1..Len(errs) :
                   errs[e].pos_begin = None
                     => errs[e].message[1] \notin {"No cases allowed.", "Unknown case '{}'."}

\* A case that is not in config.cases was reported for a translation that
\* does not parse.
C4_Witness ==
  \E i \in Returned("validate_translation") :
    /\ ParsedString_parse(calls[i].args[2]).ok
    /\ ~ParsedString_parse(calls[i].args[4]).ok
    /\ calls[i].args[1].dialect = "openttd"
    /\ calls[i].result.errors[1].message = <<"Unknown case '{}'.", <<"z">> >>

\* C5: validate_base and validate_translation never panic.
C5_NeverPanics == \A i \in 1..Len(calls) : ~calls[i].result.panic

\* C6: two calls of an entry point with equal arguments return equal
\* results, the order of the entries of `errors` included.
C6_Deterministic ==
  \A i, j \in 1..Len(calls) :
    (calls[i].fn = calls[j].fn /\ calls[i].args = calls[j].args)
      => calls[i].result = calls[j].result

\* The two messages of the Err of ParsedString::parse.
ParseMessages ==
  {"Unterminated string command, '}' expected.", "Invalid string command: '{}'"}

\* The result is the one Error of a failed parse, without normalized text.
OneParseError(result) ==
  /\ ~result.panic
  /\ Len(result.errors) = 1
  /\ result.errors[1].severity = "Error"
  /\ result.errors[1].message[1] \in ParseMessages
  /\ result.normalized = None

\* C11: ParsedString::parse fails as a whole, with the message of an
\* unterminated or of an invalid string command and without a fragment list,
\* also when earlier directives of the string parsed; validate_base of such a
\* string, and validate_translation of such a translation (the base parsing
\* and the case being accepted), return exactly one diagnostic, an Error
\* with that message, and no normalized text.
C11_ParseFailsWhole ==
  \A i \in 1..Len(calls) :
    LET cfg == calls[i].args[1]
        p == ParsedString_parse(calls[i].args[2])
        t == ParsedString_parse(calls[i].args[4])
    IN /\ (calls[i].fn = "validate_base" /\ ~p.ok)
            => /\ "fragments" \notin DOMAIN p
               /\ p.message[1] \in ParseMessages
               /\ OneParseError(calls[i].result)
               /\ calls[i].result.errors[1].message = p.message
       /\ (calls[i].fn = "validate_translation" /\ ~t.ok)
            => /\ "fragments" \notin DOMAIN t
               /\ Len(calls[i].result.errors) = 1
               /\ calls[i].result.errors[1].severity = "Error"
               /\ calls[i].result.normalized = None
               /\ (p.ok /\ CaseAccepted(cfg, calls[i].args[3]))
                    => /\ OneParseError(calls[i].result)
                       /\ calls[i].result.errors[1].message = t.message

\* validate_base returned for a string whose first directive parses and
\* whose second one is not terminated.
C11_Witness ==
  \E i \in 1..Len(calls) :
    /\ calls[i].fn = "validate_base"
    /\ ~ParsedString_parse(calls[i].args[2]).ok
    /\ ParsedString_parse(calls[i].args[2]).position > 0
    /\ ParsedString_parse(calls[i].args[2]).message[1] =
         "Unterminated string command, '}' expected."
    /\ OneParseError(calls[i].result)

\* ----------------------------------- the claims about the parser pipeline

\* The pipeline has parsed its input into fragments.
Parsed == IsSome(parsed) /\ Unwrap(parsed).ok

\* The fragments as ParsedString::parse returned them.
Fresh == history[1].fragments

\* The byte offset of the 1-based character k of s.
ByteOffset(s, k) == str_len(Take(s, k - 1))

\* The characters of s at the byte offsets from..to-1.
ByteSlice(s, from, to) ==
  LET ks == { k \in 1..Len(s) : from <= ByteOffset(s, k) /\ ByteOffset(s, k) < to }
  IN IF ks = {} THEN << >>
     ELSE SubSeq(s, CHOOSE k \in ks : \A j \in ks : k <= j,
                    CHOOSE k \in ks : \A j \in ks : j <= k)

\* Where fragment i of fs ends in an input of the given text: where the next
\* fragment starts, or at the end of the input.
EndOf(fs, i, text) == IF i < Len(fs) THEN fs[i + 1].position ELSE str_len(text)

\* The part of the input between the start of fragment i and its end.
SourceOf(fs, i, text) == ByteSlice(text, fs[i].position, EndOf(fs, i, text))

\* C9: the fragments of a string that parses cover it once and in order: the
\* first starts at 0, positions increase strictly, and the input between
\* the start of a fragment and the start of the next (the end of the input,
\* for the last) is exactly that fragment: the text of a Text fragment, one
\* directive '{...}' that parses to the content of any other; the empty
\* string, and no other, gives zero fragments.
C9_FragmentsCoverInput ==
  Parsed =>
    /\ (Fresh = << >>) <=> (base = << >>)
    /\ Fresh # << >> => Fresh[1].position = 0
    /\ \A i \in 1..(Len(Fresh) - 1) : Fresh[i].position < Fresh[i + 1].position
    /\ \A i \in 1..Len(Fresh) :
         LET src == SourceOf(Fresh, i, base)
         IN /\ Fresh[i].position < EndOf(Fresh, i, base)
            /\ IF Fresh[i].content.kind = "Text"
               THEN src = Fresh[i].content.text
               ELSE /\ Head(src) = "{"
                    /\ str_find(src, "}") = Len(src)
                    /\ FragmentContent_parse(src) = Some(Fresh[i].content)

\* A text with a character of two bytes, then a choice list.
C9_Witness ==
  /\ Parsed
  /\ Len(Fresh) = 2
  /\ Fresh[1].content = [kind |-> "Text", text |-> <<EACUTE>>]
  /\ Fresh[2].content.kind = "Choice"

\* C10: the position of a fragment is the number of codepoints of the input
\* before it: the text of a Text fragment, and the '{' of a directive, are
\* found at that codepoint of the input.
C10_PositionsAreCodepoints ==
  Parsed =>
    \A i \in 1..Len(Fresh) :
      LET p == Fresh[i].position
      IN IF Fresh[i].content.kind = "Text"
         THEN SubSeq(base, p + 1, p + Len(Fresh[i].content.text)) = Fresh[i].content.text
         ELSE p < Len(base) /\ base[p + 1] = "{"

\* The freshly parsed fragments were compiled.
ParsedThenCompiled ==
  /\ Parsed
  /\ Len(history) = 2
  /\ history[2].op = "compile"

\* C7: compiling the freshly parsed fragments reproduces the input character
\* for character.
C7_RoundTripExact == ParsedThenCompiled => compiled = Some(base)

\* The number a string of ASCII digits writes.
RECURSIVE DecimalValue(_)
DecimalValue(digits) ==
  IF digits = << >> THEN 0
  ELSE 10 * DecimalValue(Take(digits, Len(digits) - 1))
       + (CHOOSE n \in 0..9 :
            <<"0", "1", "2", "3", "4", "5", "6", "7", "8", "9">>[n + 1]
              = digits[Len(digits)])

\* A number as compile writes it: ASCII digits, no leading zero, at most
\* usize::MAX.
CanonicalNumber(digits) ==
  /\ digits # << >>
  /\ \A k \in 1..Len(digits) : digits[k] \in AsciiDigit
  /\ Len(digits) = 1 \/ digits[1] # "0"
  /\ DecimalValue(digits) <= UsizeMax

\* The length of the longest prefix of s without whitespace and without '"'.
RECURSIVE BareLen(_)
BareLen(s) ==
  IF s = << >> \/ Head(s) \in RegexSpace \/ Head(s) = QUOTE THEN 0
  ELSE 1 + BareLen(Tail(s))

\* The tokens of the inside of a choice list that is laid out as compile
\* lays it out: every token after exactly one space, a token being a run of
\* characters other than whitespace and '"', or a text without '"' in quotes.
\* None for any other layout.
RECURSIVE CanonicalTokens(_, _)
CanonicalTokens(rest, tokens) ==
  IF rest = << >> THEN Some(tokens)
  ELSE IF Head(rest) # " " \/ Len(rest) = 1 THEN None
  ELSE IF rest[2] = QUOTE
  THEN LET inner == Drop(rest, 2)
           close == str_find(inner, QUOTE)
       IN IF close = 0 THEN None
          ELSE CanonicalTokens(Drop(inner, close),
                 Append(tokens, [quoted |-> TRUE, text |-> Take(inner, close - 1)]))
  ELSE LET n == BareLen(Tail(rest))
       IN IF n = 0 THEN None
          ELSE CanonicalTokens(Drop(rest, n + 1),
                 Append(tokens, [quoted |-> FALSE, text |-> SubSeq(rest, 2, n + 1)]))

\* A reference "n" or "n:m" with both numbers as compile writes them.
CanonicalReference(token) ==
  LET colon == str_find(token, ":")
  IN IF colon = 0 THEN CanonicalNumber(token)
     ELSE /\ CanonicalNumber(Take(token, colon - 1))
          /\ CanonicalNumber(Drop(token, colon))

\* The directive src, which parses to a fragment of the given kind, is
\* spelled as compile spells it: the index of a Command and the reference of
\* a ChoiceList are canonical numbers; a GenderDecl holds no whitespace; the
\* tokens of a ChoiceList follow one space each, nothing stands before '}',
\* and exactly the choices that are empty or hold ASCII whitespace are in
\* quotes.
CanonicalSpelling(src, kind) ==
  CASE kind = "Text" -> TRUE
    [] kind = "Command" ->
         LET colon == str_find(src, ":")
         IN colon = 0 \/ CanonicalNumber(SubSeq(src, 2, colon - 1))
    [] kind = "Gender" -> \A k \in 1..Len(src) : src[k] \notin RegexSpace
    [] kind = "Choice" ->
         LET tokens == CanonicalTokens(SubSeq(src, 3, Len(src) - 1), << >>)
             ts == Unwrap(tokens)
         IN /\ IsSome(tokens)
            /\ \A k \in 1..Len(ts) :
                 ts[k].quoted <=>
                   \/ ts[k].text = << >>
                   \/ \E c \in 1..Len(ts[k].text) : is_ascii_whitespace(ts[k].text[c])
            /\ (~ts[1].quoted /\ ts[1].text[1] \in RegexDigit)
                 => CanonicalReference(ts[1].text)

\* C7, amended: compiling the freshly parsed fragments reproduces, character
\* for character, every Text fragment and every directive that is spelled
\* as compile spells it, and so the whole input when all its directives are.
C7_RoundTripCanonical ==
  ParsedThenCompiled =>
    /\ \A i \in 1..Len(Fresh) :
         CanonicalSpelling(SourceOf(Fresh, i, base), Fresh[i].content.kind)
           => FragmentContent_compile(Fresh[i].content) = SourceOf(Fresh, i, base)
    /\ (\A i \in 1..Len(Fresh) :
          CanonicalSpelling(SourceOf(Fresh, i, base), Fresh[i].content.kind))
         => compiled = Some(base)

\* A choice list with quoted choices and a command with a case were
\* compiled back to the input.
C7_Witness ==
  /\ ParsedThenCompiled
  /\ Len(Fresh) = 2
  /\ Fresh[1].content.kind = "Choice"
  /\ \E k \in 1..Len(Fresh[1].content.choices) : Fresh[1].content.choices[k] = << >>
  /\ Fresh[2].content.kind = "Command"
  /\ IsSome(Fresh[2].content.case)
  /\ compiled = Some(base)

\* C8: normalize_string applied twice gives the fragments, and so the
\* compiled text, that it gives applied once.
C8_NormalizeIdempotent ==
  \A i \in 2..Len(history) :
    (history[i].op = "normalize" /\ history[i - 1].op = "normalize")
      => /\ history[i].fragments = history[i - 1].fragments
         /\ ParsedString_compile(history[i].fragments)
              = ParsedString_compile(history[i - 1].fragments)

\* normalize_string was applied twice to a command with an alias name
\* followed by a choice list, and the first application rewrote both.
C8_Witness ==
  /\ Len(history) = 3
  /\ history[2].op = "normalize"
  /\ history[3].op = "normalize"
  /\ Len(Fresh) = 2
  /\ Fresh[1].content.kind = "Command"
  /\ history[2].fragments[1].content.name # Fresh[1].content.name
  /\ Fresh[2].content.kind = "Choice"
  /\ history[2].fragments[2].content.indexref # Fresh[2].content.indexref

\* The directives of the parsed input, as the indices of their fragments.
Directives == { i \in 1..Len(Fresh) : Fresh[i].content.kind # "Text" }

\* The grammars that accept the text src.
AcceptedBy(src) ==
  {g \in {"Command", "Gender", "Choice"} :
     \/ g = "Command" /\ IsSome(StringCommand_parse(src))
     \/ g = "Gender" /\ IsSome(GenderDefinition_parse(src))
     \/ g = "Choice" /\ IsSome(ChoiceList_parse(src))}

Against == IsSome(scan.base)

\* The state of the loop of validate_string before fragment k of test.
Before(k) == ValidateLoop(ScannerStart, SubSeq(scan.test, 1, k - 1), 1, Signature, config)

\* Fragment k of test is a command with positional parameters.
PositionalCommand(k) ==
  /\ scan.test[k].content.kind = "Command"
  /\ IsSome(FindCommand(scan.test[k].content.name, config.dialect))
  /\ Unwrap(FindCommand(scan.test[k].content.name, config.dialect)).parameters # << >>

\* Fragment k of test is a positional command written with the index the
\* counter holds when the loop reaches it.
RedundantIndex(k) ==
  /\ PositionalCommand(k)
  /\ IsSome(scan.test[k].content.index)
  /\ ~Before(k).panic
  /\ Unwrap(scan.test[k].content.index) = Before(k).pos

\* test with the index of fragment k left out.
WithoutIndex(k) == [scan.test EXCEPT ![k].content.index = None]

\* C13: a positional command of the translation written with the index the
\* position counter holds anyway is validated as the same command written
\* without index: validate_string returns the same list of diagnostics (in
\* severity, span of the fragments, message and suggestion) for both, and
\* panics for both or for neither; the base "{NUM}" with the translation
\* "{0:NUM}" gives no diagnostic.
C13_ExplicitIndexNoOp ==
  /\ (Against /\ scan.stage = "done") =>
       \A k \in 1..Len(scan.test) :
         RedundantIndex(k) =>
           \E order \in Orders(DOMAIN Signature.parameters) :
             validate_string(config, WithoutIndex(k), scan.base, order) =
               [panic |-> FALSE, errors |-> scan.errors]
  /\ (Against /\ scan.stage = "panic") =>
       \A k \in 1..Len(scan.test) :
         RedundantIndex(k) =>
           validate_string(config, WithoutIndex(k), scan.base, << >>).panic
  /\ (/\ Against /\ scan.stage = "done"
      /\ base = <<"{", "N", "U", "M", "}">>
      /\ translation = <<"{", "0", ":", "N", "U", "M", "}">>)
       => scan.errors = << >>

\* The translation "{0:NUM}" has been validated against the base "{NUM}".
C13_Witness ==
  /\ Against
  /\ scan.stage = "done"
  /\ base = <<"{", "N", "U", "M", "}">>
  /\ translation = <<"{", "0", ":", "N", "U", "M", "}">>
  /\ RedundantIndex(1)
  /\ scan.errors = << >>

\* The diagnostics about the case suffix of a command.
CaseMessages ==
  {"No case selections allowed.", "No case selection allowed for '{{{}}}'.",
   "Unknown case '{}'."}

\* A step of the loop of validate_string over fragment scan.i of test.
ScanStep == scan.stage = "scan" /\ scan.i <= Len(scan.test) /\ scan'.i = scan.i + 1

\* The diagnostics the step added, those about a case suffix left out.
Emitted ==
  SelectSeq(SubSeq(scan'.st.errors, Len(scan.st.errors) + 1, Len(scan'.st.errors)),
            LAMBDA e : e.message[1] \notin CaseMessages)

\* The position of the command at scan.i: its index, else the counter.
PositionOf(cmd) == UnwrapOr(cmd.index, scan.st.pos)

\* The found-counts are those before the step, but for one more at position p.
CountedAt(p) ==
  scan'.st.positional_count =
    Put(scan.st.positional_count, p,
        IF p \in DOMAIN scan.st.positional_count
        THEN scan.st.positional_count[p] + 1 ELSE 1)

\* The three outcomes of a positional command at position p, without what
\* becomes of the counter.
PositionalOutcome(cmd, p) ==
  LET norm_name == get_norm_name(Unwrap(FindCommand(cmd.name, config.dialect)))
      expected == Signature.parameters[p][1]
  IN IF p \notin DOMAIN Signature.parameters
     THEN /\ Len(Emitted) = 1
          /\ Emitted[1].severity = "Error"
          /\ Emitted[1].message =
               <<"There is no parameter in position {}, found '{{{}}}'.", p, cmd.name>>
          /\ scan'.st.positional_count = scan.st.positional_count
     ELSE IF get_norm_name(expected) = norm_name
     THEN Emitted = << >> /\ CountedAt(p)
     ELSE /\ Len(Emitted) = 1
          /\ Emitted[1].severity = "Error"
          /\ Emitted[1].message =
               <<"Expected '{{{}:{}}}', found '{{{}}}'.", p, expected.name, cmd.name>>
          /\ scan'.st.positional_count = scan.st.positional_count

\* The base "{NUM}" with the translation "{1:NUM}": the two Errors.
PositionalExample ==
  (/\ scan'.stage = "done" /\ scan.stage = "scan" /\ Against
   /\ base = <<"{", "N", "U", "M", "}">>
   /\ translation = <<"{", "1", ":", "N", "U", "M", "}">>)
  => /\ Len(scan'.errors) = 2
     /\ scan'.errors[1].severity = "Error"
     /\ scan'.errors[1].message =
          <<"There is no parameter in position {}, found '{{{}}}'.", 1, <<"N", "U", "M">>>>
     /\ scan'.errors[2].severity = "Error"
     /\ scan'.errors[2].message =
          <<"String command '{{{}:{}}}' is missing.", 0, <<"N", "U", "M">>>>

\* C14: for a command of the candidate that resolves to a registry entry
\* with positional parameters, at position p (its index, else the counter):
\* the signature has the same normalized name at p, the found-count of p is
\* incremented and nothing is emitted; or it has another name at p, one
\* Error "Expected ..."; or it has no entry at p, one Error "There is no
\* parameter in position p ..."; in the two error cases no found-count
\* changes, and in all three the counter becomes p + 1.  The base "{NUM}"
\* with the translation "{1:NUM}" gives the two Errors "no parameter in
\* position 1" and "'{0:NUM}' is missing".
C14_PositionalOutcome ==
  [][/\ (ScanStep /\ PositionalCommand(scan.i))
        => /\ PositionalOutcome(scan.test[scan.i].content,
                                PositionOf(scan.test[scan.i].content))
           /\ scan'.stage = "scan"
           /\ scan'.st.pos = PositionOf(scan.test[scan.i].content) + 1
     /\ PositionalExample]_vars

\* C14 for the positions below usize::MAX, where `pos += 1` does not
\* overflow.
C14_OutcomeBelowMax ==
  [][/\ (/\ ScanStep /\ PositionalCommand(scan.i)
         /\ PositionOf(scan.test[scan.i].content) < UsizeMax)
        => /\ PositionalOutcome(scan.test[scan.i].content,
                                PositionOf(scan.test[scan.i].content))
           /\ scan'.stage = "scan"
           /\ scan'.st.pos = PositionOf(scan.test[scan.i].content) + 1
     /\ PositionalExample]_vars

\* The scan went through the loop and the passes after it.
Completed == scan.stage = "done" /\ scan.builder.errors = << >>

\* What the passes after the loop added to the diagnostics of the loop.
Passed == SubSeq(scan.errors, Len(scan.st.errors) + 1, Len(scan.errors))

PositionalMessages ==
  {"String command '{{{}:{}}}' is missing.",
   "String command '{{{}:{}}}': expected {} times, found {} times."}

\* The diagnostics of the passes about position p.
AboutPosition(p) ==
  SelectSeq(Passed, LAMBDA e : e.message[1] \in PositionalMessages /\ e.message[2] = p)

\* How often the loop found the parameter of position p.
FoundAt(p) ==
  IF p \in DOMAIN scan.st.positional_count THEN scan.st.positional_count[p] ELSE 0

\* C15: after the scan, every positional entry of the signature gets
\* exactly one diagnostic, the span-less Error "String command '{p:NAME}' is
\* missing.", when its policy is not Any and it was found 0 times; exactly
\* one, the span-less Warning "expected N times, found M times", when it was
\* found at least once, its policy is Exact and the found-count differs from
\* the declared one; and none otherwise.  No other diagnostic of these two
\* forms is emitted, and a count that differs is never an Error.
C15_PositionalCompleteness ==
  Completed =>
    /\ \A p \in DOMAIN Signature.parameters :
         LET info == Signature.parameters[p][1]
             declared == Signature.parameters[p][2]
         IN IF info.occurence # "ANY" /\ FoundAt(p) = 0
            THEN AboutPosition(p) =
                   << ValidationError("Error", None, None,
                        <<"String command '{{{}:{}}}' is missing.", p,
                          get_norm_name(info)>>, None) >>
            ELSE IF FoundAt(p) >= 1 /\ info.occurence = "EXACT" /\ FoundAt(p) # declared
            THEN AboutPosition(p) =
                   << ValidationError("Warning", None, None,
                        <<"String command '{{{}:{}}}': expected {} times, found {} times.",
                          p, get_norm_name(info), declared, FoundAt(p)>>, None) >>
            ELSE AboutPosition(p) = << >>
    /\ \A e \in 1..Len(scan.errors) :
         scan.errors[e].message[1] \in PositionalMessages
           => /\ e > Len(scan.st.errors)
              /\ scan.errors[e].message[2] \in DOMAIN Signature.parameters

\* A translation that repeats a positional parameter of the base, and
\* nothing else: the one Warning.
C15_Witness ==
  /\ Completed
  /\ Against
  /\ \E p \in DOMAIN Signature.parameters :
       /\ FoundAt(p) > Signature.parameters[p][2]
       /\ Len(AboutPosition(p)) = 1
  /\ Len(scan.errors) = 1
  /\ scan.errors[1].severity = "Warning"

NonpositionalMessages ==
  {"String command '{{{}}}' is missing.",
   "String command '{{{}}}': expected {} times, found {} times.",
   "String command '{{{}}}' is unexpected."}

\* The diagnostics of the passes about the non-positional name.
AboutName(name) ==
  SelectSeq(Passed,
            LAMBDA e : e.message[1] \in NonpositionalMessages /\ e.message[2] = name)

\* How often the loop found the non-positional name in the candidate.
FoundNamed(name) ==
  IF name \in DOMAIN scan.st.nonpositional_count
  THEN scan.st.nonpositional_count[name][2] ELSE 0

\* The names of the non-positional commands of the registry, normalized.
NonpositionalNames ==
  { get_norm_name(COMMANDS[c]) : c \in {d \in 1..Len(COMMANDS) : COMMANDS[d].parameters = << >>} }

\* A non-positional command of the registry, written without index or case.
PlainNonpositional(content) ==
  /\ content.kind = "Command"
  /\ content.index = None
  /\ content.case = None
  /\ IsSome(FindCommand(content.name, config.dialect))
  /\ Unwrap(FindCommand(content.name, config.dialect)).parameters = << >>

\* The contents of the fragments but for the plain non-positional commands.
Essential(fragments) ==
  SelectSeq([f \in 1..Len(fragments) |-> fragments[f].content],
            LAMBDA content : ~PlainNonpositional(content))

\* The base, validated against itself, gets no Error.
BaseIsValid ==
  /\ Against
  /\ \A order \in Orders(DOMAIN Signature.parameters) :
       LET v == validate_string(config, Unwrap(scan.base), scan.base, order)
       IN ~v.panic /\ ~HasError(v.errors)

\* The translation differs from its base in plain non-positional commands
\* only.
DiffersInNonpositional ==
  /\ Against
  /\ Essential(scan.test) = Essential(Unwrap(scan.base))

GendersEnabled == allow_genders(config) /\ Len(config.genders) >= 2

\* The front marker the fragments before fragment k lead to: 0 before the
\* first fragment, 1 after gender definitions only, 2 after anything else.
FrontBefore(k) ==
  IF k = 1 THEN 0
  ELSE IF \A j \in 1..(k - 1) : scan.test[j].content.kind = "Gender" THEN 1
  ELSE 2

GenderMessages ==
  {"No gender definitions allowed.", "Gender definitions must be at the front.",
   "Duplicate gender definition.", "Unknown gender '{}'."}

\* The step emitted the one diagnostic, at the span of its fragment.
EmittedOnly(severity, message) ==
  /\ Len(Emitted) = 1
  /\ Emitted[1].severity = severity
  /\ Emitted[1].message = message
  /\ Emitted[1].pos_begin = Some(scan.test[scan.i].pos_begin)
  /\ Emitted[1].pos_end = Some(scan.test[scan.i].pos_end)

\* C17: the front marker is 0, 1 or 2 and no step of the scan lowers it.
\* Where gender definitions are allowed, the marker is 0 before the first
\* fragment, 1 after gender definitions only and 2 after any Text, Command
\* or ChoiceList; a gender definition that is the first fragment gets no
\* diagnostic (but the Error "Unknown gender" when the language has no
\* such gender), one after gender definitions only gets the Warning
\* "Duplicate gender definition.", one after anything else the Warning
\* "Gender definitions must be at the front."; no other fragment gets a
\* diagnostic about genders.
C17_FrontMarker ==
  [][ScanStep =>
       LET fragment == scan.test[scan.i]
       IN /\ scan.st.front \in 0..2
          /\ scan'.st.front \in 0..2
          /\ scan'.st.front >= scan.st.front
          /\ GendersEnabled =>
               /\ scan.st.front = FrontBefore(scan.i)
               /\ scan'.st.front = FrontBefore(scan.i + 1)
               /\ IF fragment.content.kind # "Gender"
                  THEN \A e \in 1..Len(Emitted) : Emitted[e].message[1] \notin GenderMessages
                  ELSE IF scan.i = 1
                  THEN IF Contains(config.genders, fragment.content.gender)
                       THEN Emitted = << >>
                       ELSE EmittedOnly("Error",
                              <<"Unknown gender '{}'.", fragment.content.gender>>)
                  ELSE IF \A j \in 1..(scan.i - 1) : scan.test[j].content.kind = "Gender"
                  THEN EmittedOnly("Warning", <<"Duplicate gender definition.">>)
                  ELSE EmittedOnly("Warning", <<"Gender definitions must be at the front.">>)
     ]_vars

\* The scan of "{G=a}{G=a}" where gender definitions are allowed: the first
\* accepted, the second a duplicate.
C17_Witness ==
  /\ Completed
  /\ GendersEnabled
  /\ Len(scan.test) = 2
  /\ \A k \in 1..2 : scan.test[k].content.kind = "Gender"
  /\ scan.st.front = 1
  /\ Len(scan.errors) = 1
  /\ scan.errors[1].severity = "Warning"
  /\ scan.errors[1].message = <<"Duplicate gender definition.">>

\* ---- the claims about the building of the signature ----

\* A step of the loop of get_signature over fragment scan.i of the base.
BuildStep ==
  scan.stage = "signature" /\ scan.i <= Len(SignatureFragments) /\ scan'.i = scan.i + 1

\* Fragment k of the base is a command of the registry with positional
\* parameters.
PositionalBaseCommand(k) ==
  /\ SignatureFragments[k].content.kind = "Command"
  /\ IsSome(FindCommand(SignatureFragments[k].content.name, config.dialect))
  /\ Unwrap(FindCommand(SignatureFragments[k].content.name, config.dialect)).parameters
       # << >>

\* The position the command at scan.i is inserted at: its index, else the
\* counter.
InsertedAt == UnwrapOr(SignatureFragments[scan.i].content.index, scan.builder.pos)

\* What a step of the loop of get_signature does to the counter and to the
\* parameters of the signature.
BuildOutcome ==
  /\ scan.i = 1 => scan.builder.pos = 0
  /\ IF PositionalBaseCommand(scan.i)
     THEN /\ scan'.stage = "signature"
          /\ scan'.builder.pos = InsertedAt + 1
          /\ scan'.builder.errors = scan.builder.errors
          /\ scan'.builder.nonpositional_count = scan.builder.nonpositional_count
          /\ DOMAIN scan'.builder.parameters =
               DOMAIN scan.builder.parameters \cup {InsertedAt}
          /\ \A q \in DOMAIN scan.builder.parameters \ {InsertedAt} :
               scan'.builder.parameters[q] = scan.builder.parameters[q]
          /\ scan'.builder.parameters[InsertedAt] =
               IF InsertedAt \in DOMAIN scan.builder.parameters
               THEN <<scan.builder.parameters[InsertedAt][1],
                      scan.builder.parameters[InsertedAt][2] + 1>>
               ELSE <<Unwrap(FindCommand(SignatureFragments[scan.i].content.name,
                                         config.dialect)), 1>>
     ELSE /\ scan'.stage = "signature"
          /\ scan'.builder.pos = scan.builder.pos
          /\ scan'.builder.parameters = scan.builder.parameters

\* C18: the counter of get_signature is 0 at the first fragment; a command
\* with positional parameters is inserted at its index, else at the counter,
\* and leaves the counter at that position plus 1; at an occupied position
\* the insertion adds 1 to the declared count and keeps the entry that was
\* there, at a free one it puts the entry with the count 1; it never fails
\* and emits nothing; every other fragment leaves the counter and the
\* parameters as they were.
C18_SignatureBuilding == [][BuildStep => BuildOutcome]_vars

\* C18 for the positions below usize::MAX, where `pos += 1` does not
\* overflow.
C18_BuildingBelowMax ==
  [][(BuildStep /\ (PositionalBaseCommand(scan.i) => InsertedAt < UsizeMax))
       => BuildOutcome]_vars

\* A base whose second command is inserted at the occupied position 0, the
\* entry of the first command kept with the declared count 2.
C18_OccupiedExample ==
  /\ scan.stage = "signature"
  /\ scan.i = 3
  /\ PositionalBaseCommand(1)
  /\ PositionalBaseCommand(2)
  /\ SignatureFragments[1].content.name # SignatureFragments[2].content.name
  /\ DOMAIN scan.builder.parameters = {0}
  /\ scan.builder.parameters[0][1].name = SignatureFragments[1].content.name
  /\ scan.builder.parameters[0][2] = 2
  /\ scan.builder.pos = 1

\* ---- the claims about case suffixes and choice lists ----

\* The registry entry the loop resolves the command at scan.i to: the entry
\* of the signature at its position when that has the name of the command
\* as its normalized name, else the entry of the registry with its name.
ResolvedEntry ==
  LET cmd == scan.test[scan.i].content
      p == UnwrapOr(cmd.index, scan.st.pos)
  IN IF p \in DOMAIN Signature.parameters
        /\ get_norm_name(Signature.parameters[p][1]) = cmd.name
     THEN Some(Signature.parameters[p][1])
     ELSE FindCommand(cmd.name, config.dialect)

\* The step is over a command with a case suffix that resolves to an entry.
CaseStep ==
  /\ ScanStep
  /\ scan.test[scan.i].content.kind = "Command"
  /\ IsSome(scan.test[scan.i].content.case)
  /\ IsSome(ResolvedEntry)

\* The diagnostics the step added.
Added == SubSeq(scan'.st.errors, Len(scan.st.errors) + 1, Len(scan'.st.errors))

\* The diagnostics about a case suffix among those the step added.
CaseEmitted == SelectSeq(Added, LAMBDA e : e.message[1] \in CaseMessages)

\* The one diagnostic about the case suffix is the Error with this message
\* and suggestion, at the span of the command, before anything else the
\* step added.
CaseError(message, suggestion) ==
  /\ Len(CaseEmitted) = 1
  /\ Added[1] = ValidationError("Error", Some(scan.test[scan.i].pos_begin),
                                Some(scan.test[scan.i].pos_end), message, suggestion)
  /\ CaseEmitted[1] = Added[1]

\* The step did, but for the diagnostics about the case suffix, what it
\* does for the same command without the suffix.
BookkeepingDone ==
  LET as_plain(plain) ==
        /\ scan'.st.pos = plain.pos
        /\ scan'.st.front = plain.front
        /\ scan'.st.panic = plain.panic
        /\ scan'.st.positional_count = plain.positional_count
        /\ scan'.st.nonpositional_count = plain.nonpositional_count
        /\ Emitted = SubSeq(plain.errors, Len(scan.st.errors) + 1, Len(plain.errors))
  IN as_plain(ValidateStep(scan.st,
                           [scan.test[scan.i] EXCEPT !.content.case = None],
                           Signature, config))

\* C19: a case suffix on a command of the candidate that resolves to a
\* registry entry gets one Error at most: "No case selections allowed."
\* when the dialect is game-script, which has no cases; else "No case
\* selection allowed for '{NAME}'." when the entry does not allow a case;
\* else "Unknown case '...'", with the cases of the language as the
\* suggestion, when the suffix is not among them; else none.  In each of
\* the four cases the step counts the command, moves the counter and emits
\* its other diagnostics as it does for the command without the suffix.
C19_CaseSuffix ==
  [][CaseStep =>
       LET cmd == scan.test[scan.i].content
           suffix == Unwrap(cmd.case)
       IN /\ IF config.dialect = "game-script"
             THEN CaseError(<<"No case selections allowed.">>,
                            Some(<<"Remove '.{}'.", suffix>>))
             ELSE IF ~Unwrap(ResolvedEntry).allow_case
             THEN CaseError(<<"No case selection allowed for '{{{}}}'.", cmd.name>>,
                            Some(<<"Remove '.{}'.", suffix>>))
             ELSE IF ~Contains(config.cases, suffix)
             THEN CaseError(<<"Unknown case '{}'.", suffix>>,
                            KnownList("Known cases are: '{}'", config.cases))
             ELSE CaseEmitted = << >>
          /\ BookkeepingDone
     ]_vars

\* A scan that met each of the three Errors: one string with a suffix on an
\* entry without cases and an unknown suffix, the commands counted all the
\* same.
C19_Witness ==
  /\ Completed
  /\ Against
  /\ config.dialect = "openttd"
  /\ Len(scan.test) = 2
  /\ Len(scan.st.errors) = 2
  /\ scan.st.errors[1].message[1] = "No case selection allowed for '{{{}}}'."
  /\ scan.st.errors[2].message[1] = "Unknown case '{}'."
  /\ scan.st.pos = 2
  /\ DOMAIN scan.st.positional_count = {0, 1}

ReferenceMessages ==
  {"'{{{}}}' references position '{}', which has no parameter.",
   "'{{{}}}' references position '{}:{}', but '{{{}:{}}}' only has {} subindices.",
   "'{{{}}}' references position '{}:{}', but '{{{}:{}}}' does not allow plurals.",
   "'{{{}}}' references position '{}:{}', but '{{{}:{}}}' does not allow genders."}

\* The step is over a choice list the configuration allows: a gender choice
\* where gender definitions are allowed, a plural choice where the language
\* has two plural forms at least.
ChoiceStep ==
  /\ ScanStep
  /\ scan.test[scan.i].content.kind = "Choice"
  /\ IF scan.test[scan.i].content.name = <<"G">>
     THEN GendersEnabled
     ELSE config.plural_count >= 2

\* The position the choice list at scan.i refers to: its indexref, else the
\* position before the counter for "P" (none at 0), the counter for "G".
ReferredPosition ==
  LET cmd == scan.test[scan.i].content
  IN IF IsSome(cmd.indexref) THEN cmd.indexref
     ELSE IF cmd.name = <<"P">>
     THEN (IF scan.st.pos = 0 THEN None ELSE Some(scan.st.pos - 1))
     ELSE Some(scan.st.pos)

\* The diagnostics about the reference among those the step added.
ReferenceEmitted == SelectSeq(Added, LAMBDA e : e.message[1] \in ReferenceMessages)

\* What the step emits about the reference of the choice list.
ReferenceOutcome ==
  LET cmd == scan.test[scan.i].content
  IN IF ReferredPosition = None
        \/ Unwrap(ReferredPosition) \notin DOMAIN Signature.parameters
     THEN ReferenceEmitted =
            << ValidationError("Error", Some(scan.test[scan.i].pos_begin),
                 Some(scan.test[scan.i].pos_end),
                 <<"'{{{}}}' references position '{}', which has no parameter.", cmd.name,
                   IF ReferredPosition = None THEN -1 ELSE Unwrap(ReferredPosition)>>,
                 IF cmd.indexref = None THEN Some(<<"Add a position reference.">>)
                                        ELSE None) >>
     ELSE \A e \in 1..Len(ReferenceEmitted) :
            /\ ReferenceEmitted[e].message[1] #
                 "'{{{}}}' references position '{}', which has no parameter."
            /\ ReferenceEmitted[e].message[3] = Unwrap(ReferredPosition)

\* C20: a choice list the configuration allows refers to its indexref when
\* it has one, else to the position before the counter for "P" (to none
\* when the counter is 0) and to the counter for "G".  When the signature
\* has no entry there, the step emits the one Error "'{X}' references
\* position 'N', which has no parameter.", N the position, -1 when there is
\* none, with the suggestion "Add a position reference." exactly when the
\* choice list has no indexref; when it has an entry, any diagnostic about
\* the reference names that position.
C20_ChoiceReference == [][ChoiceStep => ReferenceOutcome]_vars

\* C20 for the positions up to isize::MAX, which the message can print.
C20_ReferenceBelowMax ==
  [][(/\ ChoiceStep
      /\ ReferredPosition # None => IsSome(isize_try_from(Unwrap(ReferredPosition))))
       => ReferenceOutcome]_vars

\* The scan of "{P a b}" alone, which refers to no position, and of a
\* choice list whose indexref has no parameter: each with its one Error.
C20_UnresolvedExample ==
  /\ Completed
  /\ config.dialect = "openttd"
  /\ Len(scan.test) = 2
  /\ \A k \in 1..2 : scan.test[k].content.kind = "Choice"
  /\ scan.test[1].content.indexref = None
  /\ scan.test[2].content.indexref = Some(1)
  /\ Len(scan.st.errors) = 2
  /\ scan.st.errors[1].message[3] = -1
  /\ scan.st.errors[1].suggestion = Some(<<"Add a position reference.">>)
  /\ scan.st.errors[2].message[3] = 1
  /\ scan.st.errors[2].suggestion = None

CardinalityMessages ==
  {"Expected {} plural choices, found {}.", "Expected {} gender choices, found {}."}

\* The step is over a choice list.
ChoiceListStep == ScanStep /\ scan.test[scan.i].content.kind = "Choice"

\* The one diagnostic the step added is this Error, at the span of the
\* choice list.
OnlyError(message, suggestion) ==
  Added = << ValidationError("Error", Some(scan.test[scan.i].pos_begin),
               Some(scan.test[scan.i].pos_end), message, suggestion) >>

\* The number of choices the configuration asks of the list at scan.i.
ExpectedChoices ==
  IF scan.test[scan.i].content.name = <<"P">> THEN config.plural_count
  ELSE Len(config.genders)

\* The diagnostics about the reference that the step adds for the list at
\* scan.i when it has the number of choices the configuration asks for.
ReferenceOfWellFormed ==
  LET of_step(st) ==
        SelectSeq(SubSeq(st.errors, Len(scan.st.errors) + 1, Len(st.errors)),
                  LAMBDA e : e.message[1] \in ReferenceMessages)
  IN of_step(ValidateStep(scan.st,
                          [scan.test[scan.i] EXCEPT
                             !.content.choices = [c \in 1..ExpectedChoices |-> <<"a">>]],
                          Signature, config))

\* C21: for a choice list the gate comes first: a "G" list where the dialect
\* has no genders or the language fewer than two gets the one Error "No
\* gender choices allowed.", a "P" list where plural_count < 2 the one
\* Error "No plural choices allowed.", and the step adds nothing else.
\* Past the gate the step adds the Error "Expected N plural (gender)
\* choices, found M." exactly when the number of choices is not plural_count
\* (the number of genders), and after it the diagnostics of the reference
\* check, which are those of the same list with the right number of
\* choices.
C21_ChoiceGate ==
  [][ChoiceListStep =>
       LET cmd == scan.test[scan.i].content
       IN IF cmd.name = <<"G">> /\ ~GendersEnabled
          THEN OnlyError(<<"No gender choices allowed.">>, Some(<<"Remove '{G ...}'.">>))
          ELSE IF cmd.name = <<"P">> /\ config.plural_count < 2
          THEN OnlyError(<<"No plural choices allowed.">>, Some(<<"Remove '{P ...}'.">>))
          ELSE Added =
                 (IF Len(cmd.choices) # ExpectedChoices
                  THEN << ValidationError("Error", Some(scan.test[scan.i].pos_begin),
                            Some(scan.test[scan.i].pos_end),
                            <<IF cmd.name = <<"P">>
                              THEN "Expected {} plural choices, found {}."
                              ELSE "Expected {} gender choices, found {}.",
                              ExpectedChoices, Len(cmd.choices)>>, None) >>
                  ELSE << >>)
                 \o ReferenceOfWellFormed
     ]_vars

\* The scan of a "G" list with one choice that refers to a position without
\* parameter, where genders are allowed: both Errors for the one fragment.
C21_Witness ==
  /\ Completed
  /\ GendersEnabled
  /\ Len(scan.test) = 1
  /\ scan.test[1].content.kind = "Choice"
  /\ scan.test[1].content.name = <<"G">>
  /\ Len(scan.st.errors) = 2
  /\ scan.st.errors[1].message = <<"Expected {} gender choices, found {}.", 2, 1>>
  /\ scan.st.errors[2].message[1] =
       "'{{{}}}' references position '{}', which has no parameter."

\* The sub-index the choice list at scan.i refers to in the entry: its
\* indexsubref, else for "P" the default plural sub-index of the entry, else
\* 0.
ReferredSubindex(entry) ==
  LET cmd == scan.test[scan.i].content
  IN IF IsSome(cmd.indexsubref) THEN Unwrap(cmd.indexsubref)
     ELSE IF cmd.name = <<"P">> /\ IsSome(entry.def_plural_subindex)
     THEN Unwrap(entry.def_plural_subindex)
     ELSE 0

\* What the step emits about a reference to the entry at position p, with
\* the sub-index sub.
SubindexOutcome(p, entry, sub) ==
  LET cmd == scan.test[scan.i].content
      at == Some(scan.test[scan.i].pos_begin)
      to == Some(scan.test[scan.i].pos_end)
  IN ReferenceEmitted =
       IF sub >= Len(entry.parameters)
       THEN << ValidationError("Error", at, to,
                 <<"'{{{}}}' references position '{}:{}', but '{{{}:{}}}' only has {} subindices.",
                   cmd.name, p, sub, p, get_norm_name(entry), Len(entry.parameters)>>,
                 None) >>
       ELSE IF cmd.name = <<"P">> /\ ~entry.parameters[sub + 1].allow_plural
       THEN << ValidationError("Error", at, to,
                 <<"'{{{}}}' references position '{}:{}', but '{{{}:{}}}' does not allow plurals.",
                   cmd.name, p, sub, p, get_norm_name(entry)>>, None) >>
       ELSE IF cmd.name = <<"G">> /\ ~entry.parameters[sub + 1].allow_gender
       THEN << ValidationError("Error", at, to,
                 <<"'{{{}}}' references position '{}:{}', but '{{{}:{}}}' does not allow genders.",
                   cmd.name, p, sub, p, get_norm_name(entry)>>, None) >>
       ELSE << >>

\* C22: when the position a choice list refers to has an entry E in the
\* signature, the sub-index is the indexsubref of the list, else the default
\* plural sub-index of E for "P" (0 when E has none), else 0; with a
\* sub-index not below the number N of parameters of E the step emits the
\* one Error "... only has N subindices.", else the one Error "does not
\* allow plurals" ("P") or "does not allow genders" ("G") exactly when the
\* flag of that parameter is false.  E is the entry of the signature, which
\* is built from the base, whatever commands the candidate has.
C22_SubindexCheck ==
  [][(/\ ChoiceStep
      /\ ReferredPosition # None
      /\ Unwrap(ReferredPosition) \in DOMAIN Signature.parameters)
       => SubindexOutcome(Unwrap(ReferredPosition),
                          Signature.parameters[Unwrap(ReferredPosition)][1],
                          ReferredSubindex(
                            Signature.parameters[Unwrap(ReferredPosition)][1]))
     ]_vars

\* The candidate "{P 0:0 a b}{P 0 a b}", without any command, against the
\* base "{CARGO_LONG}": the first list refers to the parameter 0:0, which
\* allows no plural, the second to the default 0:1, which does.
C22_Witness ==
  /\ Completed
  /\ Against
  /\ Len(Unwrap(scan.base)) = 1
  /\ Unwrap(scan.base)[1].content.name = CargoLong
  /\ Len(scan.test) = 2
  /\ scan.test[1].content = Choice(<<"P">>, Some(0), Some(0), << <<"a">>, <<"b">> >>)
  /\ scan.test[2].content = Choice(<<"P">>, Some(0), None, << <<"a">>, <<"b">> >>)
  /\ Len(scan.st.errors) = 1
  /\ scan.st.errors[1].message =
       <<"'{{{}}}' references position '{}:{}', but '{{{}:{}}}' does not allow plurals.",
         <<"P">>, 0, 0, 0, CargoLong>>
  /\ scan.st.errors[1].pos_end = Some(scan.test[1].pos_end)

\* ---- the claims about sanitize_whitespace and normalize_string ----

\* The ASCII control characters: U+0000 to U+001F and U+007F.
AsciiControl == {NUL, TAB, LF, CR, DEL}

\* The text with a space in the place of each ASCII control character.
Spaced(text) ==
  [j \in 1..Len(text) |-> IF text[j] \in AsciiControl THEN " " ELSE text[j]]

\* The applications of sanitize_whitespace, as the indices of history.
Sanitized == { i \in 2..Len(history) : history[i].op = "sanitize" }

Blank == {" ", TAB, LF, CR, NBSPCHAR}

\* The text without its trailing blanks.
WithoutTrailingBlanks(text) ==
  Take(text, CHOOSE n \in 0..Len(text) :
               /\ n > 0 => text[n] \notin Blank
               /\ \A j \in (n + 1)..Len(text) : text[j] \in Blank)

\* Fragment k ends a line: it is the last one, or the next one is the
\* command with the empty name.
EndsLine(fragments, k) ==
  \/ k = Len(fragments)
  \/ /\ fragments[k + 1].content.kind = "Command"
     /\ fragments[k + 1].content.name = << >>

\* C24: sanitize_whitespace removes the trailing blanks of a Text, the
\* control characters having become spaces, exactly when the Text is the
\* last fragment or the next fragment is the command with the empty name;
\* before any other command, a gender definition or a choice list the Text
\* keeps them; leading and inner blanks stay in both cases.
C24_TrailingBlanks ==
  \A i \in Sanitized :
    LET before == history[i - 1].fragments
        after == history[i].fragments
    IN \A k \in 1..Len(before) :
         before[k].content.kind = "Text" =>
           after[k].content.text =
             IF EndsLine(before, k)
             THEN WithoutTrailingBlanks(Spaced(before[k].content.text))
             ELSE Spaced(before[k].content.text)

\* sanitize_whitespace was applied to " a b  " before "{}": cut to " a b",
\* the leading and the inner blank kept.
C24_Witness ==
  /\ Len(history) = 2
  /\ 2 \in Sanitized
  /\ Len(history[1].fragments) = 2
  /\ history[1].fragments[1].content = Text(<<" ", "a", " ", "b", " ", " ">>)
  /\ history[1].fragments[2].content = Command(None, << >>, None)
  /\ history[2].fragments[1].content = Text(<<" ", "a", " ", "b">>)

\* The applications of normalize_string, as the indices of history; a
\* panic of it is among them.
Normalized == { i \in 2..Len(history) : history[i].op \in {"normalize", "panic"} }

\* The content is a command of the registry with positional parameters.
PositionalContent(content) ==
  /\ content.kind = "Command"
  /\ IsSome(FindCommand(content.name, config.dialect))
  /\ Unwrap(FindCommand(content.name, config.dialect)).parameters # << >>

\* The position the running counter has before fragment k: 0 at the start,
\* after a command with positional parameters its index, else the counter
\* it met, plus 1.
RECURSIVE CounterBefore(_, _)
CounterBefore(fragments, k) ==
  IF k = 1 THEN 0
  ELSE IF PositionalContent(fragments[k - 1].content)
  THEN UnwrapOr(fragments[k - 1].content.index, CounterBefore(fragments, k - 1)) + 1
  ELSE CounterBefore(fragments, k - 1)

\* The name normalize_string leaves a command of this name with.
NormalizedName(name) ==
  IF IsSome(FindCommand(name, config.dialect))
  THEN get_norm_name(Unwrap(FindCommand(name, config.dialect)))
  ELSE name

\* What normalize_string made of the indices, names and references of
\* before.
NormalizedFrom(before, after) ==
  /\ Len(after) = Len(before)
  /\ \A k \in 1..Len(before) :
       LET was == before[k].content
           is == after[k].content
       IN /\ after[k].position = before[k].position
          /\ is.kind = was.kind
          /\ was.kind \in {"Text", "Gender"} => is = was
          /\ was.kind = "Command" =>
               /\ is.name = NormalizedName(was.name)
               /\ is.case = was.case
               /\ is.index = IF PositionalContent(was)
                             THEN Some(UnwrapOr(was.index, CounterBefore(before, k)))
                             ELSE was.index
          /\ was.kind = "Choice" =>
               /\ is.name = was.name
               /\ is.choices = was.choices
               /\ is.indexref =
                    IF IsSome(was.indexref) THEN was.indexref
                    ELSE IF was.name = <<"G">> THEN Some(CounterBefore(before, k))
                    ELSE IF CounterBefore(before, k) > 0
                    THEN Some(CounterBefore(before, k) - 1)
                    ELSE None

\* "{RED}{NBSP}{2:STRING}{0:STRING}{1:COMMA}"
NormalizeCmdResult ==
  <<"{", "R", "E", "D", "}", "{", "N", "B", "S", "P", "}",
    "{", "2", ":", "S", "T", "R", "I", "N", "G", "}",
    "{", "0", ":", "S", "T", "R", "I", "N", "G", "}",
    "{", "1", ":", "C", "O", "M", "M", "A", "}">>

\* C25: normalize_string returns, and after it every command with
\* positional parameters has the index it had, else the position of the
\* running counter, which an index sets to that index plus 1; every command
\* of the registry has the normalized name of its entry; a command without
\* positional parameters, an unknown command, a Text and a gender
\* definition are as they were; a choice list without indexref has the
\* counter ("G") or the counter minus 1 ("P", unset at 0) as its indexref.
\* Under openttd "{RED}{NBSP}{2:RAW_STRING}{0:STRING5}{COMMA}" becomes
\* "{RED}{NBSP}{2:STRING}{0:STRING}{1:COMMA}".
C25_NormalizedIndices ==
  \A i \in Normalized :
    /\ history[i].op = "normalize"
    /\ NormalizedFrom(history[i - 1].fragments, history[i].fragments)
    /\ (/\ i = 2
        /\ config.dialect = "openttd"
        /\ history[1].fragments = Positioned(NormalizeCmdExample, 0))
         => ParsedString_compile(history[2].fragments) = NormalizeCmdResult

\* No command of the fragments is at the position usize::MAX.
BelowMax(fragments) ==
  \A k \in 1..Len(fragments) :
    PositionalContent(fragments[k].content)
      => UnwrapOr(fragments[k].content.index, CounterBefore(fragments, k)) < UsizeMax

\* C25 for the strings without a command at the position usize::MAX, where
\* `pos += 1` does not overflow.
C25_IndicesBelowMax ==
  \A i \in Normalized :
    BelowMax(history[i - 1].fragments) =>
      /\ history[i].op = "normalize"
      /\ NormalizedFrom(history[i - 1].fragments, history[i].fragments)
      /\ (/\ i = 2
          /\ config.dialect = "openttd"
          /\ history[1].fragments = Positioned(NormalizeCmdExample, 0))
           => ParsedString_compile(history[2].fragments) = NormalizeCmdResult

\* normalize_string was applied to the string of test_normalize_cmd under
\* openttd.
C25_CmdExample ==
  /\ Len(history) = 2
  /\ 2 \in Normalized
  /\ config.dialect = "openttd"
  /\ history[1].fragments = Positioned(NormalizeCmdExample, 0)
  /\ ParsedString_compile(history[2].fragments) = NormalizeCmdResult

\* The commands with positional parameters that the normalized string has
\* at position p, as the indices of its fragments; the entry of a command
\* is the one normalize_string found for its name.
CommandsAt(before, after, p) ==
  { j \in 1..Len(after) :
      PositionalContent(before[j].content) /\ after[j].content.index = Some(p) }

\* The default plural sub-index of the entry of the last of these commands,
\* 0 when it has none.
DefaultSubindex(before, commands) ==
  UnwrapOr(Unwrap(FindCommand(before[CHOOSE j \in commands : \A h \in commands : h <= j]
                                .content.name,
                              config.dialect)).def_plural_subindex,
           0)

\* "{0:NUM}{P 0 a b}{G 1 a b}{G 1:1 a b}{1:STRING}{P 1:2 a b}{2:CARGO_LONG}
\* {P 2 a b}"
NormalizeSubrefResult ==
  <<"{", "0", ":", "N", "U", "M", "}",
    "{", "P", " ", "0", " ", "a", " ", "b", "}",
    "{", "G", " ", "1", " ", "a", " ", "b", "}",
    "{", "G", " ", "1", ":", "1", " ", "a", " ", "b", "}",
    "{", "1", ":", "S", "T", "R", "I", "N", "G", "}",
    "{", "P", " ", "1", ":", "2", " ", "a", " ", "b", "}",
    "{", "2", ":">> \o CargoLong \o <<"}",
    "{", "P", " ", "2", " ", "a", " ", "b", "}">>

\* C26: after normalize_string a choice list whose indexref names a
\* position at which the normalized string has a command with positional
\* parameters has lost its indexsubref exactly when that was the default
\* plural sub-index of the entry of that command (of the last one, when
\* several are at the position), or 0 when the entry has none; every other
\* indexsubref, and every indexsubref of a list whose indexref names no
\* such position, is as it was.  Under openttd the string of
\* test_normalize_subref becomes "{0:NUM}{P 0 a b}{G 1 a b}{G 1:1 a b}
\* {1:STRING}{P 1:2 a b}{2:CARGO_LONG}{P 2 a b}".
C26_DefaultSubindexRemoved ==
  \A i \in Normalized :
    history[i].op = "normalize" =>
      LET before == history[i - 1].fragments
          after == history[i].fragments
      IN /\ \A k \in 1..Len(before) :
              before[k].content.kind = "Choice" =>
                LET commands ==
                      IF IsSome(after[k].content.indexref)
                      THEN CommandsAt(before, after, Unwrap(after[k].content.indexref))
                      ELSE {}
                IN after[k].content.indexsubref =
                     IF /\ commands # {}
                        /\ before[k].content.indexsubref =
                             Some(DefaultSubindex(before, commands))
                     THEN None
                     ELSE before[k].content.indexsubref
         /\ (/\ i = 2
             /\ config.dialect = "openttd"
             /\ before = Positioned(NormalizeSubrefExample, 0))
              => ParsedString_compile(after) = NormalizeSubrefResult

\* normalize_string was applied to the string of test_normalize_subref
\* under openttd.
C26_Witness ==
  /\ Len(history) = 2
  /\ history[2].op = "normalize"
  /\ config.dialect = "openttd"
  /\ history[1].fragments = Positioned(NormalizeSubrefExample, 0)
  /\ history[2].fragments[2].content.indexsubref = None
  /\ history[2].fragments[4].content.indexsubref = Some(1)
  /\ history[2].fragments[8].content.indexsubref = None
  /\ ParsedString_compile(history[2].fragments) = NormalizeSubrefResult

\* The position of the command with positional parameters that is
\* fragment j: its index, else the running counter.
CommandPosition(fragments, j) ==
  UnwrapOr(fragments[j].content.index, CounterBefore(fragments, j))

\* The position the validator takes for the choice list that is fragment k:
\* its indexref, else the counter minus 1 ('P', none at counter 0) or the
\* counter ('G').
ResolvedPosition(fragments, k) ==
  OptOr(fragments[k].content.indexref,
        IF fragments[k].content.name = <<"P">>
        THEN (IF CounterBefore(fragments, k) = 0
              THEN None ELSE Some(CounterBefore(fragments, k) - 1))
        ELSE Some(CounterBefore(fragments, k)))

\* The commands with positional parameters at the position of list k.
ReferredCommands(fragments, k) ==
  IF IsSome(ResolvedPosition(fragments, k))
  THEN { j \in 1..Len(fragments) :
           /\ PositionalContent(fragments[j].content)
           /\ CommandPosition(fragments, j) = Unwrap(ResolvedPosition(fragments, k)) }
  ELSE {}

\* The entry the list k refers to, where one command is at its position.
ReferredEntry(fragments, k) ==
  Unwrap(FindCommand(fragments[CHOOSE j \in ReferredCommands(fragments, k) : TRUE]
                       .content.name,
                     config.dialect))

\* The sub-index the validator takes for list k: the indexsubref, else the
\* default plural sub-index of the entry for 'P', else 0.
ResolvedSubindex(fragments, k) ==
  IF fragments[k].content.name = <<"P">>
  THEN UnwrapOr(OptOr(fragments[k].content.indexsubref,
                      ReferredEntry(fragments, k).def_plural_subindex), 0)
  ELSE UnwrapOr(fragments[k].content.indexsubref, 0)

\* The list k of a string without a command at the last position refers to
\* one command.
RefersToOne(fragments, k) ==
  /\ fragments[k].content.kind = "Choice"
  /\ BelowMax(fragments)
  /\ Cardinality(ReferredCommands(fragments, k)) = 1

\* The list k refers to the same position and sub-index before and after.
SameReference(before, after, k) ==
  /\ Cardinality(ReferredCommands(after, k)) = 1
  /\ ResolvedPosition(after, k) = ResolvedPosition(before, k)
  /\ ResolvedSubindex(after, k) = ResolvedSubindex(before, k)

\* C27: a choice list that refers to a command of the string refers to the
\* same position and the same sub-index (the indexsubref, else the default
\* plural sub-index of the entry for 'P', else 0) after normalize_string as
\* before, for 'P' and for 'G' and whatever the default plural sub-index of
\* the entry.
C27_ReferencePreserved ==
  \A i \in Normalized :
    history[i].op = "normalize" =>
      \A k \in 1..Len(history[i].fragments) :
        RefersToOne(history[i - 1].fragments, k)
          => SameReference(history[i - 1].fragments, history[i].fragments, k)

\* The same for every list but a 'G' that refers to an entry with a default
\* plural sub-index other than 0.
C27_PreservedButGenderOfDefault ==
  \A i \in Normalized :
    history[i].op = "normalize" =>
      \A k \in 1..Len(history[i].fragments) :
        (/\ RefersToOne(history[i - 1].fragments, k)
         /\ ~(/\ history[i - 1].fragments[k].content.name = <<"G">>
              /\ UnwrapOr(ReferredEntry(history[i - 1].fragments, k)
                            .def_plural_subindex, 0) # 0))
          => SameReference(history[i - 1].fragments, history[i].fragments, k)

\* normalize_string has taken the sub-index of a 'P' and of a 'G' that gave
\* the default of their entry, and both refer to what they did.
C27_KeptExample ==
  /\ Len(history) = 2
  /\ history[2].op = "normalize"
  /\ config.dialect = "openttd"
  /\ history[1].fragments = Positioned(NormalizeSubrefExample, 0)
  /\ \A k \in {2, 3, 8} :
       /\ IsSome(history[1].fragments[k].content.indexsubref)
       /\ history[2].fragments[k].content.indexsubref = None
       /\ RefersToOne(history[1].fragments, k)
       /\ SameReference(history[1].fragments, history[2].fragments, k)

\* ------------------------ the claim about validating the normalized text

\* The calls that were made with the normalized text of the call before
\* them in place of its string.
MadeAgain ==
  { i \in 2..Len(calls) :
      /\ calls[i].fn = calls[i - 1].fn
      /\ IsSome(calls[i - 1].result.normalized)
      /\ calls[i].args =
           [calls[i - 1].args EXCEPT ![Len(calls[i - 1].args)] =
              Unwrap(calls[i - 1].result.normalized)] }

\* C28: a call of validate_base or of validate_translation with the
\* normalized text n of the call before it, the other arguments the same,
\* returns no Error and the normalized text n again.
C28_FixedPoint ==
  \A i \in MadeAgain :
    /\ ~calls[i].result.panic
    /\ ~HasError(calls[i].result.errors)
    /\ calls[i].result.normalized = calls[i - 1].result.normalized

\* The text is what compile writes for the fragments parse reads from it.
ReadsAsWritten(n) ==
  LET of_parsed(p) == p.ok /\ ParsedString_compile(p.fragments) = n
  IN of_parsed(ParsedString_parse(n))

\* The same for the normalized texts that read as they are written.
C28_FixedPointAsWritten ==
  \A i \in MadeAgain :
    ReadsAsWritten(Unwrap(calls[i - 1].result.normalized)) =>
      /\ ~calls[i].result.panic
      /\ ~HasError(calls[i].result.errors)
      /\ calls[i].result.normalized = calls[i - 1].result.normalized

\* '{NUM}{P "a<U+00A0>" b}' was accepted against '{NUM}', and its normalized
\* text '{0:NUM}{P 0 a<U+00A0> b}' is normalized to '{0:NUM}{P 0 a b}'.
C28_NonAsciiExample ==
  /\ Len(calls) = 2
  /\ 2 \in MadeAgain
  /\ calls[1].fn = "validate_translation"
  /\ calls[1].args[4] = <<"{", "N", "U", "M", "}",
                          "{", "P", " ", QUOTE, "a", NBSPCHAR, QUOTE, " ", "b", "}">>
  /\ calls[1].result.normalized =
       Some(<<"{", "0", ":", "N", "U", "M", "}",
              "{", "P", " ", "0", " ", "a", NBSPCHAR, " ", "b", "}">>)
  /\ calls[2].result.normalized =
       Some(<<"{", "0", ":", "N", "U", "M", "}",
              "{", "P", " ", "0", " ", "a", " ", "b", "}">>)

\* A text with a control character in a choice and a written index with
\* leading zeros was normalized, and its normalized text is returned again.
C28_KeptExample ==
  /\ Len(calls) = 2
  /\ 2 \in MadeAgain
  /\ calls[1].args[Len(calls[1].args)] =
       <<"{", "0", "0", ":", "N", "U", "M", "}", "{", "P", " ", "a", NUL, " ", "b", "}">>
  /\ calls[1].result.normalized =
       Some(<<"{", "0", ":", "N", "U", "M", "}",
              "{", "P", " ", "0", " ", QUOTE, "a", " ", QUOTE, " ", "b", "}">>)
  /\ calls[2].result.errors = << >>
  /\ calls[2].result.normalized = calls[1].result.normalized

\* ------------------------------ the claim about unconfigured genders

\* Fragment k of the candidate defines a gender the language does not have.
UnconfiguredGender(k) ==
  /\ scan.test[k].content.kind = "Gender"
  /\ ~Contains(config.genders, scan.test[k].content.gender)

\* C29: where gender definitions are allowed, the step of the scan over a
\* gender definition that names a gender outside config.genders emits the
\* Error "Unknown gender", wherever the definition stands.
C29_UnknownGender ==
  [][(ScanStep /\ GendersEnabled /\ UnconfiguredGender(scan.i)) =>
       \E e \in 1..Len(Emitted) :
         /\ Emitted[e].severity = "Error"
         /\ Emitted[e].message =
              <<"Unknown gender '{}'.", scan.test[scan.i].content.gender>>
     ]_vars

\* The same for a gender definition that is the first fragment.
C29_UnknownGenderInFront ==
  [][(ScanStep /\ GendersEnabled /\ UnconfiguredGender(scan.i) /\ scan.i = 1) =>
       EmittedOnly("Error",
                   <<"Unknown gender '{}'.", scan.test[scan.i].content.gender>>)
     ]_vars

\* The scan of "{G=a}{G=z}" where gender definitions are allowed and z is no
\* gender of the language has ended with the one Warning of a duplicate.
C29_DuplicateExample ==
  /\ Completed
  /\ GendersEnabled
  /\ Len(scan.test) = 2
  /\ scan.test[1].content.kind = "Gender"
  /\ UnconfiguredGender(2)
  /\ Len(scan.errors) = 1
  /\ scan.errors[1].severity = "Warning"
  /\ scan.errors[1].message = <<"Duplicate gender definition.">>

\* ------------------------------------ the claim about written numbers

\* The number a string of decimal digits (of the regex class d) writes.
RECURSIVE WrittenValue(_)
WrittenValue(digits) ==
  IF digits = << >> THEN 0
  ELSE 10 * WrittenValue(Take(digits, Len(digits) - 1))
       + (IF digits[Len(digits)] = ARABIC3 THEN 3
          ELSE DecimalValue(<< digits[Len(digits)] >>))

\* The digits before the ':' of the command src, none when it has no index.
WrittenIndex(src) ==
  LET n == PrefixLen(Body(src), RegexDigit)
  IN IF n > 0 /\ Len(Body(src)) > n /\ Body(src)[n + 1] = ":"
     THEN Take(Body(src), n) ELSE << >>

\* The choice list src after its letter and the whitespace behind it.
AfterLetter(src) ==
  Drop(Drop(Body(src), 1), PrefixLen(Drop(Body(src), 1), RegexSpace))

\* The digits of the reference of the choice list src, none when it has no
\* reference.
WrittenRef(src) == Take(AfterLetter(src), PrefixLen(AfterLetter(src), RegexDigit))

\* The digits behind the ':' of the reference of the choice list src.
WrittenSubref(src) ==
  LET rest == Drop(AfterLetter(src), Len(WrittenRef(src)))
  IN IF WrittenRef(src) # << >> /\ rest # << >> /\ rest[1] = ":"
     THEN Take(Drop(rest, 1), PrefixLen(Drop(rest, 1), RegexDigit))
     ELSE << >>

\* The parsed number is the one the digits write, absent without digits.
ReadAs(number, digits) ==
  number = IF digits = << >> THEN None ELSE Some(WrittenValue(digits))

\* Fragment i, a directive, has the numbers its source writes.
NumbersAsWritten(i) ==
  LET content == Fresh[i].content
      src == SourceOf(Fresh, i, base)
  IN /\ content.kind = "Command" => ReadAs(content.index, WrittenIndex(src))
     /\ content.kind = "Choice" =>
          /\ ReadAs(content.indexref, WrittenRef(src))
          /\ ReadAs(content.indexsubref, WrittenSubref(src))

\* C30: in a string that parses, the index of every command and the
\* indexref and indexsubref of every choice list are present exactly when
\* digits are written for them and are the decimal value of those digits,
\* whatever their length and value.
C30_WrittenNumbers == Parsed => \A i \in 1..Len(Fresh) : NumbersAsWritten(i)

\* The digits are ASCII digits that write a number up to usize::MAX.
Fits(digits) ==
  /\ \A k \in 1..Len(digits) : digits[k] \in AsciiDigit
  /\ WrittenValue(digits) <= UsizeMax

\* The same for the directives whose numbers are written in ASCII digits
\* and are at most usize::MAX.
C30_NumbersThatFit ==
  Parsed =>
    \A i \in 1..Len(Fresh) :
      LET src == SourceOf(Fresh, i, base)
      IN (/\ Fresh[i].content.kind = "Command" => Fits(WrittenIndex(src))
          /\ Fresh[i].content.kind = "Choice" =>
               Fits(WrittenRef(src)) /\ Fits(WrittenSubref(src)))
           => NumbersAsWritten(i)

\* "{01:NUM}{P 1:0 a b}" was parsed: index 1, indexref 1, indexsubref 0.
C30_LeadingZeroExample ==
  /\ Parsed
  /\ base = <<"{", "0", "1", ":", "N", "U", "M", "}",
              "{", "P", " ", "1", ":", "0", " ", "a", " ", "b", "}">>
  /\ Fresh[1].content.index = Some(1)
  /\ Fresh[2].content.indexref = Some(1)
  /\ Fresh[2].content.indexsubref = Some(0)

\* "{<usize::MAX + 1>:NUM}" was parsed to a command without index.
C30_AbsentExample ==
  /\ Parsed
  /\ base = OverIndexCommand
  /\ Len(Fresh) = 1
  /\ Fresh[1].content.kind = "Command"
  /\ Fresh[1].content.index = None

====
